---------------------------- MODULE Spec2Model ----------------------------
(***************************************************************************)
(* UWallet: a two-asset (UWT, RUB) balance ledger kept in SQLite, with     *)
(* vouchers (checks), invoices (bills), prize pools (giveaways) and a      *)
(* limit order book.  The model follows src/main3.py, the revision that    *)
(* holds all of these; the signed administrative adjustment exists only in *)
(* src/main.py and is taken from there.                                    *)
(*                                                                         *)
(* Amounts are REAL columns in the code; they are modelled as integers,    *)
(* for which the 1e-12 tolerances of the comparisons change nothing.       *)
(*                                                                         *)
(* Every call opens its own connection (db()).  A statement outside a      *)
(* transaction reads the last committed state; the statements between      *)
(* BEGIN IMMEDIATE (or the first write, which opens a transaction          *)
(* implicitly) and commit() are one atomic step, since SQLite admits one   *)
(* writer at a time.  The sequential specifications run each handler as    *)
(* one action; the concurrent ones split a handler at the points where its *)
(* reads are outside its transaction.                                      *)
(***************************************************************************)
EXTENDS Integers, Sequences, FiniteSets, TLC

\* ------------------------------------------------------------------ bounds
MaxOrders == 3
MaxPair == 2
MaxBurst == 5
MaxChain == 3
MaxCancel == 2
MaxRace == 2
MaxChecks == 1
MaxAdjust == 2
MaxBills == 1
MaxPools == 1
MaxTime == 1
NCalls == 2

\* ------------------------------------------------------------ input domains
\* RUB per UWT of the exchange until an administrator sets another rate
DEFAULT_RATE_RUB_PER_UWT == 10

Users == {1, 2, 3}
Assets == {"UWT", "RUB"}
Sides == {"buy", "sell"}
Prices == {10, 12}
Amounts == {4, 6, 10}

VARIABLES
  users,        \* tg_ids that have a row in table users
  uwt, rub,     \* users.uwt, users.rub (meaningful for tg_ids in users)
  tx,           \* table tx, in insertion order
  orders,       \* table orders; an order's id is its index
  trades,       \* table trades, in insertion order
  released,     \* history: per order, how much of its locked asset was paid out
  outOfTurn,    \* history: the trades made between orders that were not the best open ones
  checks,       \* table checks; a check's token is its index
  check_claims, \* table check_claims: pairs <<check, user_tg_id>>
  bills_uwt,    \* table bills_uwt; a bill's token is its index
  giveaways,    \* table giveaways; a giveaway's id is its index
  giveaway_participants,  \* table giveaway_participants: pairs <<giveaway, user_tg_id>>
  channel_subs, \* table channel_subs: expires_at (in days) for the pairs <<channel, user_tg_id>>
  rate,         \* table settings, row rate_rub_per_uwt: RUB per UWT of the exchange
  calls,        \* the calls in flight: where each stands and what it has read
  now,          \* the clock read by utcnow(), in seconds
  ret           \* what the last handler returned

ledgerVars == <<uwt, rub, tx>>
bookVars == <<orders, trades, released, outOfTurn>>
checkVars == <<checks, check_claims>>
poolVars == <<giveaways, giveaway_participants>>
grantVars == <<channel_subs>>
vars == <<users, uwt, rub, tx, orders, trades, released, outOfTurn, checks, check_claims, bills_uwt,
          giveaways, giveaway_participants, channel_subs, rate, calls, now, ret>>

\* ----------------------------------------------------------------- helpers
NoRet == [op |-> "none", ok |-> TRUE, msg |-> "none"]

\* The calls that run concurrently, and a call that has not started
CallIds == 1..NCalls
IdleCall == [pc |-> "idle", op |-> "none", uid |-> 0, arg |-> 0, pw |-> 0, seen |-> <<>>, result |-> "none"]

Min(a, b) == IF a <= b THEN a ELSE b

\* An UPDATE of users whose WHERE matches no row
UpdateBalNoRow(bal, uid, delta) == bal

\* "UPDATE users SET <asset>=<asset>+? WHERE tg_id=?": changes a row only if it exists
UpdateBal(bal, uid, delta) ==
  IF uid \in users THEN [bal EXCEPT ![uid] = @ + delta] ELSE bal

\* "INSERT INTO tx(tg_id, asset, delta, kind, meta, created_at)"
InsertTx(log, uid, asset, delta, kind, meta) ==
  Append(log, [tg_id |-> uid, asset |-> asset, delta |-> delta, kind |-> kind, meta |-> meta])


\* ------------------------------------------------ order book (main3.py 630-789)
\* The tables a book operation works on, as one value
BookState == [uwt |-> uwt, rub |-> rub, tx |-> tx, orders |-> orders,
              trades |-> trades, released |-> released, outOfTurn |-> outOfTurn]

\* A lock of funds that does not compare the balance with what it takes
OrderLockFundsUnchecked(st, uid, side, price, amount) ==
  IF uid \notin users
  THEN [ok |-> FALSE, st |-> st]
  ELSE IF side = "buy"
  THEN [ok |-> TRUE,
        st |-> [st EXCEPT !.rub = UpdateBal(st.rub, uid, -(price * amount)),
                          !.tx = InsertTx(st.tx, uid, "RUB", -(price * amount), "order_lock", 0)]]
  ELSE [ok |-> TRUE,
        st |-> [st EXCEPT !.uwt = UpdateBal(st.uwt, uid, -amount),
                          !.tx = InsertTx(st.tx, uid, "UWT", -amount, "order_lock", 0)]]

\* _order_lock_funds: the balance check and the debit, inside place_order's transaction
OrderLockFunds(st, uid, side, price, amount) ==
  IF uid \notin users
  THEN [ok |-> FALSE, st |-> st]          \* cur.fetchone() is None: TypeError, caught by place_order
  ELSE IF side = "buy"
  THEN LET cost == price * amount IN
       IF st.rub[uid] < cost
       THEN [ok |-> FALSE, st |-> st]
       ELSE [ok |-> TRUE,
             st |-> [st EXCEPT !.rub = UpdateBal(st.rub, uid, -cost),
                               !.tx = InsertTx(st.tx, uid, "RUB", -cost, "order_lock", 0)]]
  ELSE IF st.uwt[uid] < amount
       THEN [ok |-> FALSE, st |-> st]
       ELSE [ok |-> TRUE,
             st |-> [st EXCEPT !.uwt = UpdateBal(st.uwt, uid, -amount),
                               !.tx = InsertTx(st.tx, uid, "UWT", -amount, "order_lock", 0)]]

\* Nothing is returned
OrderRefundNothing(st, oid, uid, side, price, remaining) == st

\* _order_refund: return the locked funds of `remaining` units
OrderRefund(st, oid, uid, side, price, remaining) ==
  IF remaining <= 0 THEN st
  ELSE IF side = "buy"
  THEN LET refund == price * remaining IN
       [st EXCEPT !.rub = UpdateBal(st.rub, uid, refund),
                  !.tx = InsertTx(st.tx, uid, "RUB", refund, "order_refund", 0),
                  !.released[oid] = @ + refund]
  ELSE [st EXCEPT !.uwt = UpdateBal(st.uwt, uid, remaining),
                  !.tx = InsertTx(st.tx, uid, "UWT", remaining, "order_refund", 0),
                  !.released[oid] = @ + remaining]

\* SettleTrade with the trade priced at the buy order's limit instead of the sell's
SettleTradeAtBuyPrice(st, bid, b, sid, s, qty) ==
  LET trade_price == b.price
      rub_amount == qty * trade_price
  IN [st EXCEPT
        !.uwt = UpdateBal(st.uwt, b.user_tg_id, qty),
        !.rub = UpdateBal(st.rub, s.user_tg_id, rub_amount),
        !.tx = InsertTx(InsertTx(st.tx, b.user_tg_id, "UWT", qty, "trade_buy", trade_price),
                        s.user_tg_id, "RUB", rub_amount, "trade_sell", trade_price),
        !.orders[bid].remaining = @ - qty,
        !.orders[sid].remaining = @ - qty,
        !.trades = Append(st.trades, [buy_order_id |-> bid, sell_order_id |-> sid,
                                      price |-> trade_price, amount |-> qty]),
        !.released[bid] = @ + rub_amount,
        !.released[sid] = @ + qty]

\* lines 722-740: settle one trade of qty between buy row b (id bid) and sell row s (id sid)
SettleTrade(st, bid, b, sid, s, qty) ==
  LET trade_price == s.price
      rub_amount == qty * trade_price
  IN [st EXCEPT
        !.uwt = UpdateBal(st.uwt, b.user_tg_id, qty),
        !.rub = UpdateBal(st.rub, s.user_tg_id, rub_amount),
        !.tx = InsertTx(InsertTx(st.tx, b.user_tg_id, "UWT", qty, "trade_buy", trade_price),
                        s.user_tg_id, "RUB", rub_amount, "trade_sell", trade_price),
        !.orders[bid].remaining = @ - qty,
        !.orders[sid].remaining = @ - qty,
        !.trades = Append(st.trades, [buy_order_id |-> bid, sell_order_id |-> sid,
                                      price |-> trade_price, amount |-> qty]),
        !.released[bid] = @ + rub_amount,
        !.released[sid] = @ + qty]

\* lines 745-754: when the refreshed buy row has nothing left, mark it filled and
\* pay back (buy_price - trade_price) * qty of this trade
FillBuy(st, bid, b, s, qty) ==
  IF st.orders[bid].remaining <= 0
  THEN LET diff == (b.price - s.price) * qty
           st1 == [st EXCEPT !.orders[bid].status = "filled", !.orders[bid].remaining = 0]
       IN IF diff > 0
          THEN [st1 EXCEPT !.rub = UpdateBal(st1.rub, b.user_tg_id, diff),
                           !.tx = InsertTx(st1.tx, b.user_tg_id, "RUB", diff, "order_price_refund", 0),
                           !.released[bid] = @ + diff]
          ELSE st1
  ELSE st

\* The sell row left as it is
FillSellNever(st, sid) == st

\* lines 755-756
FillSell(st, sid) ==
  IF st.orders[sid].remaining <= 0
  THEN [st EXCEPT !.orders[sid].status = "filled", !.orders[sid].remaining = 0]
  ELSE st

\* The rows of the orders table that are open with something left, of one side
Matchable(ords, side) ==
  {i \in 1..Len(ords) : ords[i].status = "open" /\ ords[i].side = side /\ ords[i].remaining > 0}

\* In the table as it stands, bid is a best open buy (highest price, earliest creation)
\* and sid a best open sell (lowest price, earliest creation)
BestPair(ords, bid, sid) ==
  /\ bid \in Matchable(ords, "buy") /\ sid \in Matchable(ords, "sell")
  /\ \A k \in Matchable(ords, "buy") :
       ~(ords[k].price > ords[bid].price
         \/ (ords[k].price = ords[bid].price /\ ords[k].created_at < ords[bid].created_at))
  /\ \A k \in Matchable(ords, "sell") :
       ~(ords[k].price < ords[sid].price
         \/ (ords[k].price = ords[sid].price /\ ords[k].created_at < ords[sid].created_at))

\* History: count the trade about to be made if its orders are not the best pair
NoteTurn(st, bid, sid) ==
  IF BestPair(st.orders, bid, sid) THEN st ELSE [st EXCEPT !.outOfTurn = @ + 1]

\* lines 708-756: the inner loop over the sell rows fetched at line 698.  b is the buy
\* row as read at line 705; the loop does not read it again.
RECURSIVE MatchSells(_, _, _, _, _)
MatchSells(st, bid, b, sells, j) ==
  IF j > Len(sells) THEN st
  ELSE LET sid == sells[j]
           s == st.orders[sid]                      \* refresh_order(s["id"])
       IN IF s.status # "open" \/ s.remaining <= 0
          THEN MatchSells(st, bid, b, sells, j + 1)
          ELSE IF b.price < s.price
          THEN st                                   \* break
          ELSE LET qty == Min(b.remaining, s.remaining) IN
               IF qty <= 0
               THEN MatchSells(st, bid, b, sells, j + 1)
               ELSE MatchSells(
                      FillSell(FillBuy(SettleTrade(NoteTurn(st, bid, sid), bid, b, sid, s, qty),
                                       bid, b, s, qty), sid),
                      bid, b, sells, j + 1)

\* lines 704-707: the outer loop over the buy rows fetched at line 695
RECURSIVE MatchBuys(_, _, _, _)
MatchBuys(st, buys, sells, i) ==
  IF i > Len(buys) THEN st
  ELSE LET bid == buys[i]
           b == st.orders[bid]                      \* refresh_order(b["id"])
       IN IF b.status # "open" \/ b.remaining <= 0
          THEN MatchBuys(st, buys, sells, i + 1)
          ELSE MatchBuys(MatchSells(st, bid, b, sells, 1), buys, sells, i + 1)

\* The ids of the open orders of one side
OpenIds(ords, side) ==
  {i \in 1..Len(ords) : ords[i].status = "open" /\ ords[i].side = side}

\* ORDER BY price DESC|ASC, created_at ASC: a must come before b
SortsBefore(ords, side, a, b) ==
  \/ (side = "buy" /\ ords[a].price > ords[b].price)
  \/ (side = "sell" /\ ords[a].price < ords[b].price)
  \/ (ords[a].price = ords[b].price /\ ords[a].created_at < ords[b].created_at)

\* The results the SELECT ... ORDER BY of lines 694/697 may give: rows that agree on
\* price and created_at (one-second resolution) come in an order SQL leaves open
SelectOpen(ords, side) ==
  LET S == OpenIds(ords, side) IN
  {q \in [1..Cardinality(S) -> S] :
     /\ \A i, j \in 1..Cardinality(S) : i # j => q[i] # q[j]
     /\ \A i, j \in 1..Cardinality(S) : i < j => ~SortsBefore(ords, side, q[j], q[i])}

\* match_orders without its loops
MatchNothing(st, buys, sells) == st

\* match_orders, for the two result lists read at its start
MatchOrders(st, buys, sells) == MatchBuys(st, buys, sells, 1)

NewOrder(uid, side, price, amount) ==
  [user_tg_id |-> uid, side |-> side, price |-> price, amount |-> amount,
   remaining |-> amount, status |-> "open", created_at |-> now]

\* place_order: lock the funds, insert the order, commit, then match_orders()
PlaceOrder(uid, side, price, amount) ==
  /\ LET lk == OrderLockFunds(BookState, uid, side, price, amount) IN
     IF price <= 0 \/ amount <= 0 \/ ~lk.ok
     THEN /\ ret' = [op |-> "place", ok |-> FALSE, msg |-> "rejected"]
          /\ UNCHANGED <<users, ledgerVars, bookVars, checkVars, bills_uwt, poolVars, grantVars, rate, calls, now>>
     ELSE LET st1 == [lk.st EXCEPT !.orders = Append(@, NewOrder(uid, side, price, amount)),
                                   !.released = Append(@, 0)]
          IN \E buys \in SelectOpen(st1.orders, "buy"), sells \in SelectOpen(st1.orders, "sell") :
               LET st2 == MatchOrders(st1, buys, sells) IN
               /\ uwt' = st2.uwt /\ rub' = st2.rub /\ tx' = st2.tx
               /\ orders' = st2.orders /\ trades' = st2.trades /\ released' = st2.released
               /\ outOfTurn' = st2.outOfTurn
               /\ ret' = [op |-> "place", ok |-> TRUE, msg |-> "created"]
               /\ UNCHANGED <<users, checkVars, bills_uwt, poolVars, grantVars, rate, calls, now>>

\* cancel_order
CancelOrder(uid, oid) ==
  IF oid \notin 1..Len(orders)
  THEN /\ ret' = [op |-> "cancel", ok |-> FALSE, msg |-> "NotFound"]
       /\ UNCHANGED <<users, ledgerVars, bookVars, checkVars, bills_uwt, poolVars, grantVars, rate, calls, now>>
  ELSE IF orders[oid].user_tg_id # uid
  THEN /\ ret' = [op |-> "cancel", ok |-> FALSE, msg |-> "NotOwner"]
       /\ UNCHANGED <<users, ledgerVars, bookVars, checkVars, bills_uwt, poolVars, grantVars, rate, calls, now>>
  ELSE IF orders[oid].status # "open"
  THEN /\ ret' = [op |-> "cancel", ok |-> FALSE, msg |-> "NotOpen"]
       /\ UNCHANGED <<users, ledgerVars, bookVars, checkVars, bills_uwt, poolVars, grantVars, rate, calls, now>>
  ELSE LET o == orders[oid]
           st1 == [BookState EXCEPT !.orders[oid].status = "cancelled"]
           st2 == OrderRefund(st1, oid, uid, o.side, o.price, o.remaining)
       IN /\ uwt' = st2.uwt /\ rub' = st2.rub /\ tx' = st2.tx
          /\ orders' = st2.orders /\ trades' = st2.trades /\ released' = st2.released
          /\ outOfTurn' = st2.outOfTurn
          /\ ret' = [op |-> "cancel", ok |-> TRUE, msg |-> "cancelled"]
          /\ UNCHANGED <<users, checkVars, bills_uwt, poolVars, grantVars, rate, calls, now>>

\* place_order up to its commit (lines 663-684): call c locks the funds and inserts
\* the order in one transaction; match_orders follows in a transaction of its own
PlaceTxn(c, uid, side, price, amount) ==
  /\ calls[c].pc = "idle"
  /\ LET lk == OrderLockFunds(BookState, uid, side, price, amount) IN
     IF price <= 0 \/ amount <= 0 \/ ~lk.ok
     THEN /\ ret' = [op |-> "place", ok |-> FALSE, msg |-> "rejected"]
          /\ UNCHANGED <<ledgerVars, bookVars, calls>>
     ELSE /\ uwt' = lk.st.uwt /\ rub' = lk.st.rub /\ tx' = lk.st.tx
          /\ orders' = Append(orders, NewOrder(uid, side, price, amount))
          /\ released' = Append(released, 0)
          /\ calls' = [calls EXCEPT ![c] =
               [IdleCall EXCEPT !.pc = "match", !.op = "place", !.uid = uid,
                                !.arg = Len(orders) + 1]]
          /\ UNCHANGED <<trades, outOfTurn, ret>>
  /\ UNCHANGED <<users, checkVars, bills_uwt, poolVars, grantVars, rate, now>>

\* place_order, lines 685-686: the matching pass of call c, one transaction
\* (BEGIN IMMEDIATE ... commit), after which place_order returns
MatchTxn(c) ==
  /\ calls[c].pc = "match" /\ calls[c].op = "place"
  /\ \E buys \in SelectOpen(orders, "buy"), sells \in SelectOpen(orders, "sell") :
       LET st2 == MatchOrders(BookState, buys, sells) IN
       /\ uwt' = st2.uwt /\ rub' = st2.rub /\ tx' = st2.tx
       /\ orders' = st2.orders /\ trades' = st2.trades /\ released' = st2.released
       /\ outOfTurn' = st2.outOfTurn
  /\ calls' = [calls EXCEPT ![c] = IdleCall]
  /\ ret' = [op |-> "place", ok |-> TRUE, msg |-> "created"]
  /\ UNCHANGED <<users, checkVars, bills_uwt, poolVars, grantVars, rate, now>>

\* cancel_order, lines 762-778: call c reads the row outside a transaction and keeps
\* its side, price and remaining
CancelRead(c, uid, oid) ==
  /\ calls[c].pc = "idle"
  /\ IF oid \notin 1..Len(orders)
     THEN /\ ret' = [op |-> "cancel", ok |-> FALSE, msg |-> "NotFound"]
          /\ UNCHANGED calls
     ELSE IF orders[oid].user_tg_id # uid
     THEN /\ ret' = [op |-> "cancel", ok |-> FALSE, msg |-> "NotOwner"]
          /\ UNCHANGED calls
     ELSE IF orders[oid].status # "open"
     THEN /\ ret' = [op |-> "cancel", ok |-> FALSE, msg |-> "NotOpen"]
          /\ UNCHANGED calls
     ELSE /\ calls' = [calls EXCEPT ![c] =
               [IdleCall EXCEPT !.pc = "txn", !.op = "cancel", !.uid = uid, !.arg = oid,
                  !.seen = <<orders[oid].side, orders[oid].price, orders[oid].remaining>>]]
          /\ UNCHANGED ret
  /\ UNCHANGED <<users, ledgerVars, bookVars, checkVars, bills_uwt, poolVars, grantVars, rate, now>>

\* cancel_order from BEGIN IMMEDIATE to commit (lines 780-789): the status is
\* flipped if the order is still open, the refund uses what CancelRead has read
CancelTxn(c) ==
  /\ calls[c].pc = "txn" /\ calls[c].op = "cancel"
  /\ LET oid == calls[c].arg
         uid == calls[c].uid
         o == calls[c].seen
     IN IF orders[oid].status # "open"
        THEN /\ ret' = [op |-> "cancel", ok |-> FALSE, msg |-> "CancelFailed"]
             /\ UNCHANGED <<ledgerVars, bookVars>>
        ELSE LET st1 == [BookState EXCEPT !.orders[oid].status = "cancelled"]
                 st2 == OrderRefund(st1, oid, uid, o[1], o[2], o[3])
             IN /\ uwt' = st2.uwt /\ rub' = st2.rub /\ tx' = st2.tx
                /\ orders' = st2.orders /\ trades' = st2.trades /\ released' = st2.released
                /\ outOfTurn' = st2.outOfTurn
                /\ ret' = [op |-> "cancel", ok |-> TRUE, msg |-> "cancelled"]
  /\ calls' = [calls EXCEPT ![c] = IdleCall]
  /\ UNCHANGED <<users, checkVars, bills_uwt, poolVars, grantVars, rate, now>>

\* One second passes
Tick ==
  /\ now < MaxTime
  /\ now' = now + 1
  /\ UNCHANGED <<users, ledgerVars, bookVars, checkVars, bills_uwt, poolVars, grantVars, rate, calls, ret>>


\* --------------------------------------------------- ledger (main3.py 309-335)
\* get_balances: an unknown account reads as (0, 0)
GetBalance(bal, uid) == IF uid \in users THEN bal[uid] ELSE 0

\* add_asset, as adm_bal_amount (main.py 1917-1942) calls it: any signed amount,
\* for an account that exists
AdminAdjust(uid, asset, delta) ==
  IF uid \notin users
  THEN /\ ret' = [op |-> "adjust", ok |-> FALSE, msg |-> "NotFound"]
       /\ UNCHANGED <<users, ledgerVars, bookVars, checkVars, bills_uwt, poolVars, grantVars, rate, calls, now>>
  ELSE /\ uwt' = IF asset = "UWT" THEN UpdateBal(uwt, uid, delta) ELSE uwt
       /\ rub' = IF asset = "RUB" THEN UpdateBal(rub, uid, delta) ELSE rub
       /\ tx' = InsertTx(tx, uid, asset, delta, "admin_adjust", 0)
       /\ ret' = [op |-> "adjust", ok |-> TRUE, msg |-> "done"]
       /\ UNCHANGED <<users, bookVars, checkVars, bills_uwt, poolVars, grantVars, rate, calls, now>>

\* ------------------------------------------------- vouchers (main3.py 390-486)
\* sha256 of a password: distinct passwords have distinct digests, and no digest is
\* a password; 0 stands for None
Sha256(pw) == pw + 100

\* create_check_multi
CreateCheck(uid, total_amount, per_claim, max_claims, password) ==
  IF \/ total_amount <= 0 \/ per_claim <= 0 \/ max_claims <= 0
     \/ total_amount < per_claim * max_claims
  THEN /\ ret' = [op |-> "create_check", ok |-> FALSE, msg |-> "InvalidInput"]
       /\ UNCHANGED <<users, ledgerVars, bookVars, checkVars, bills_uwt, poolVars, grantVars, rate, calls, now>>
  ELSE IF GetBalance(uwt, uid) < total_amount
  THEN /\ ret' = [op |-> "create_check", ok |-> FALSE, msg |-> "InsufficientFunds"]
       /\ UNCHANGED <<users, ledgerVars, bookVars, checkVars, bills_uwt, poolVars, grantVars, rate, calls, now>>
  ELSE /\ uwt' = UpdateBal(uwt, uid, -total_amount)
       /\ checks' = Append(checks,
            [creator_tg_id |-> uid, total_amount |-> total_amount, per_claim |-> per_claim,
             max_claims |-> max_claims, claimed_count |-> 0,
             passhash |-> IF password # 0 THEN Sha256(password) ELSE 0, status |-> "active"])
       /\ tx' = InsertTx(tx, uid, "UWT", -total_amount, "check_create", Len(checks) + 1)
       /\ ret' = [op |-> "create_check", ok |-> TRUE, msg |-> "token"]
       /\ UNCHANGED <<users, rub, bookVars, check_claims, bills_uwt, poolVars, grantVars, rate, calls, now>>

\* create_check_multi up to BEGIN IMMEDIATE (lines 393-400): call c validates the
\* amounts and checks the balance that get_balances reads on a connection of its own
CreateCheckRead(c, uid, total_amount, per_claim, max_claims, password) ==
  /\ calls[c].pc = "idle"
  /\ LET res == IF \/ total_amount <= 0 \/ per_claim <= 0 \/ max_claims <= 0
                   \/ total_amount < per_claim * max_claims
                THEN "InvalidInput"
                ELSE IF GetBalance(uwt, uid) < total_amount THEN "InsufficientFunds"
                ELSE "proceed"
     IN calls' = [calls EXCEPT ![c] =
          [pc |-> IF res = "proceed" THEN "txn" ELSE "done", op |-> "create_check",
           uid |-> uid, arg |-> 0, pw |-> password,
           seen |-> <<total_amount, per_claim, max_claims>>,
           result |-> IF res = "proceed" THEN "none" ELSE res]]
  /\ UNCHANGED <<users, ledgerVars, bookVars, checkVars, bills_uwt, poolVars, grantVars, rate, now, ret>>

\* create_check_multi from BEGIN IMMEDIATE to commit (lines 406-420): the debit, the
\* check and the log entry
CreateCheckTxn(c) ==
  /\ calls[c].pc = "txn" /\ calls[c].op = "create_check"
  /\ LET uid == calls[c].uid
         total_amount == calls[c].seen[1]
     IN /\ uwt' = UpdateBal(uwt, uid, -total_amount)
        /\ checks' = Append(checks,
             [creator_tg_id |-> uid, total_amount |-> total_amount,
              per_claim |-> calls[c].seen[2], max_claims |-> calls[c].seen[3],
              claimed_count |-> 0,
              passhash |-> IF calls[c].pw # 0 THEN Sha256(calls[c].pw) ELSE 0,
              status |-> "active"])
        /\ tx' = InsertTx(tx, uid, "UWT", -total_amount, "check_create", Len(checks) + 1)
  /\ calls' = [calls EXCEPT ![c].pc = "done", ![c].arg = Len(checks) + 1, ![c].result = "ok"]
  /\ UNCHANGED <<users, rub, bookVars, check_claims, bills_uwt, poolVars, grantVars, rate, now, ret>>

\* The reads of the row without the password checks of lines 440-446
ClaimPrecheckNoPassword(token, password) ==
  IF token \notin 1..Len(checks) THEN "NotFound"
  ELSE IF checks[token].status # "active" THEN "Unavailable"
  ELSE "proceed"

\* claim_check_by_token, lines 431-448: what the read of the row decides
ClaimPrecheck(token, password) ==
  IF token \notin 1..Len(checks) THEN "NotFound"
  ELSE IF checks[token].status # "active" THEN "Unavailable"
  ELSE IF checks[token].passhash # 0 /\ password = 0 THEN "PasswordRequired"
  ELSE IF checks[token].passhash # 0 /\ Sha256(password) # checks[token].passhash
  THEN "WrongPassword"
  ELSE "proceed"

\* claim_check_by_token up to BEGIN IMMEDIATE: call c reads the row outside a transaction
ClaimRead(c, uid, token, password) ==
  /\ calls[c].pc = "idle"
  /\ LET pre == ClaimPrecheck(token, password) IN
     calls' = [calls EXCEPT ![c] =
       [pc |-> IF pre = "proceed" THEN "txn" ELSE "done", op |-> "claim", uid |-> uid,
        arg |-> token, pw |-> password,
        seen |-> IF token \in 1..Len(checks) THEN <<checks[token].status>> ELSE <<>>,
        result |-> IF pre = "proceed" THEN "none" ELSE pre]]
  /\ UNCHANGED <<users, ledgerVars, bookVars, checkVars, bills_uwt, poolVars, grantVars, rate, now, ret>>

\* The row of the check whatever its status
SelectCheckAnyStatus(token) == <<checks[token]>>

\* lines 456-460: the row of the check if it is still active
SelectActiveCheck(token) == IF checks[token].status = "active" THEN <<checks[token]>> ELSE <<>>

\* A lookup of the claim record that finds none
HasClaimedNever(token, uid) == FALSE

\* lines 451-454: SELECT 1 FROM check_claims WHERE check_id=? AND user_tg_id=?
HasClaimed(token, uid) == <<token, uid>> \in check_claims

\* A count of claims left that never reaches zero
ClaimsLeftNeverZero(r) == r.max_claims - r.claimed_count + 1

\* lines 478-481: left = max_claims - claimed_count
ClaimsLeft(r) == r.max_claims - r.claimed_count

\* claim_check_by_token from BEGIN IMMEDIATE to commit (lines 450-486)
ClaimTxn(c) ==
  /\ calls[c].pc = "txn" /\ calls[c].op = "claim"
  /\ LET uid == calls[c].uid
         token == calls[c].arg
         r2 == SelectActiveCheck(token)
     IN IF HasClaimed(token, uid)
        THEN /\ calls' = [calls EXCEPT ![c].pc = "done", ![c].result = "AlreadyClaimed"]
             /\ UNCHANGED <<ledgerVars, checkVars>>
        ELSE IF r2 = <<>>
        THEN /\ calls' = [calls EXCEPT ![c].pc = "done", ![c].result = "Unavailable"]
             /\ UNCHANGED <<ledgerVars, checkVars>>
        ELSE IF r2[1].claimed_count >= r2[1].max_claims
        THEN /\ checks' = [checks EXCEPT ![token].status = "finished"]
             /\ calls' = [calls EXCEPT ![c].pc = "done", ![c].result = "Exhausted"]
             /\ UNCHANGED <<ledgerVars, check_claims>>
        ELSE /\ uwt' = UpdateBal(uwt, uid, r2[1].per_claim)
             /\ check_claims' = check_claims \cup {<<token, uid>>}
             /\ tx' = InsertTx(tx, uid, "UWT", r2[1].per_claim, "check_claim", token)
             /\ checks' = [checks EXCEPT
                  ![token].claimed_count = @ + 1,
                  ![token].status = IF ClaimsLeft(r2[1]) - 1 <= 0 THEN "finished" ELSE @]
             /\ calls' = [calls EXCEPT ![c].pc = "done", ![c].result = "ok"]
             /\ UNCHANGED rub
  /\ UNCHANGED <<users, bookVars, bills_uwt, poolVars, grantVars, rate, now, ret>>

\* The return of create_check_multi or claim_check_by_token: the connection is
\* closed and the caller is free to call again
CallReturn(c) ==
  /\ calls[c].pc = "done"
  /\ calls' = [calls EXCEPT ![c] = IdleCall]
  /\ UNCHANGED <<users, ledgerVars, bookVars, checkVars, bills_uwt, poolVars, grantVars, rate, now, ret>>

\* claim_check_by_token run to its return with no other call in between
\* (lines 430-486): the reads of lines 431-448, then the transaction
ClaimCheckByToken(uid, token, password) ==
  LET pre == ClaimPrecheck(token, password)
      fail(msg) == /\ ret' = [op |-> "claim", ok |-> FALSE, msg |-> msg]
                   /\ UNCHANGED <<ledgerVars, checkVars>>
  IN
  /\ IF pre # "proceed" THEN fail(pre)
     ELSE IF HasClaimed(token, uid) THEN fail("AlreadyClaimed")
     ELSE LET r2 == SelectActiveCheck(token) IN
          IF r2 = <<>> THEN fail("Unavailable")
          ELSE IF r2[1].claimed_count >= r2[1].max_claims
          THEN /\ checks' = [checks EXCEPT ![token].status = "finished"]
               /\ ret' = [op |-> "claim", ok |-> FALSE, msg |-> "Exhausted"]
               /\ UNCHANGED <<ledgerVars, check_claims>>
          ELSE /\ uwt' = UpdateBal(uwt, uid, r2[1].per_claim)
               /\ check_claims' = check_claims \cup {<<token, uid>>}
               /\ tx' = InsertTx(tx, uid, "UWT", r2[1].per_claim, "check_claim", token)
               /\ checks' = [checks EXCEPT
                    ![token].claimed_count = @ + 1,
                    ![token].status = IF ClaimsLeft(r2[1]) - 1 <= 0 THEN "finished" ELSE @]
               /\ ret' = [op |-> "claim", ok |-> TRUE, msg |-> "claimed"]
               /\ UNCHANGED rub
  /\ UNCHANGED <<users, bookVars, bills_uwt, poolVars, grantVars, rate, calls, now>>

\* --------------------------------------------------- bills (main3.py 489-550)
\* create_bill_uwt_by_token
CreateBill(uid, amount) ==
  IF amount <= 0
  THEN /\ ret' = [op |-> "create_bill", ok |-> FALSE, msg |-> "InvalidInput"]
       /\ UNCHANGED <<users, ledgerVars, bookVars, checkVars, bills_uwt, poolVars, grantVars, rate, calls, now>>
  ELSE /\ bills_uwt' = Append(bills_uwt,
            [creator_tg_id |-> uid, amount |-> amount, status |-> "active", paid_by_tg_id |-> 0])
       /\ ret' = [op |-> "create_bill", ok |-> TRUE, msg |-> "token"]
       /\ UNCHANGED <<users, ledgerVars, bookVars, checkVars, poolVars, grantVars, rate, calls, now>>

\* The reads of the row without the comparison of creator and payer
PayPrecheckAnyPayer(token, payer_id) ==
  IF token \notin 1..Len(bills_uwt) THEN "NotFound"
  ELSE IF bills_uwt[token].status # "active" THEN "Unavailable"
  ELSE "proceed"

\* pay_bill_by_token, lines 514-526: what the read of the row decides
PayPrecheck(token, payer_id) ==
  IF token \notin 1..Len(bills_uwt) THEN "NotFound"
  ELSE IF bills_uwt[token].status # "active" THEN "Unavailable"
  ELSE IF bills_uwt[token].creator_tg_id = payer_id THEN "SelfPay"
  ELSE "proceed"

\* pay_bill_by_token, lines 514-528: call c reads the row outside a transaction
PayRead(c, payer_id, token) ==
  /\ calls[c].pc = "idle"
  /\ LET pre == PayPrecheck(token, payer_id) IN
     calls' = [calls EXCEPT ![c] =
       [pc |-> IF pre = "proceed" THEN "bal" ELSE "done", op |-> "pay", uid |-> payer_id,
        arg |-> token, pw |-> 0,
        seen |-> IF pre = "proceed"
                 THEN <<bills_uwt[token].creator_tg_id, bills_uwt[token].amount>> ELSE <<>>,
        result |-> IF pre = "proceed" THEN "none" ELSE pre]]
  /\ UNCHANGED <<users, ledgerVars, bookVars, checkVars, bills_uwt, poolVars, grantVars, rate, now, ret>>

\* lines 529-532: get_balances reads the payer's balance on a connection of its own
PayBalance(c) ==
  /\ calls[c].pc = "bal" /\ calls[c].op = "pay"
  /\ calls' = IF GetBalance(uwt, calls[c].uid) < calls[c].seen[2]
              THEN [calls EXCEPT ![c].pc = "done", ![c].result = "InsufficientFunds"]
              ELSE [calls EXCEPT ![c].pc = "txn"]
  /\ UNCHANGED <<users, ledgerVars, bookVars, checkVars, bills_uwt, poolVars, grantVars, rate, now, ret>>

\* A rowcount of 1 whatever the status of the bill
PayRowcountUnguarded(token) == 1

\* lines 535-537: rowcount of "UPDATE bills_uwt SET status='paid' ... AND status='active'"
PayRowcount(token) == IF bills_uwt[token].status = "active" THEN 1 ELSE 0

\* pay_bill_by_token from BEGIN IMMEDIATE to commit (lines 534-550)
PayTxn(c) ==
  /\ calls[c].pc = "txn" /\ calls[c].op = "pay"
  /\ LET payer_id == calls[c].uid
         token == calls[c].arg
         creator == calls[c].seen[1]
         amount == calls[c].seen[2]
     IN IF PayRowcount(token) # 1
        THEN /\ calls' = [calls EXCEPT ![c].pc = "done", ![c].result = "AlreadyPaid"]
             /\ UNCHANGED <<ledgerVars, bills_uwt>>
        ELSE /\ bills_uwt' = [bills_uwt EXCEPT ![token].status = "paid",
                                               ![token].paid_by_tg_id = payer_id]
             /\ uwt' = UpdateBal(UpdateBal(uwt, payer_id, -amount), creator, amount)
             /\ tx' = InsertTx(InsertTx(tx, payer_id, "UWT", -amount, "bill_pay", token),
                               creator, "UWT", amount, "bill_receive", token)
             /\ calls' = [calls EXCEPT ![c].pc = "done", ![c].result = "ok"]
             /\ UNCHANGED rub
  /\ UNCHANGED <<users, bookVars, checkVars, poolVars, grantVars, rate, now, ret>>

\* A close() that commits what the connection has pending
CloseCommits(committed, pending) == pending

\* src/main.py, lines 463-465: con.close() with no commit discards the updates the
\* connection has pending
CloseWithoutCommit(committed, pending) == committed

\* src/main.py pay_bill_uwt, lines 455-471: the balances are updated first, in the
\* transaction the first UPDATE opens, then the status is flipped if the bill is
\* still active; a rowcount other than 1 closes the connection without commit
PayBillUwtTxn(c) ==
  /\ calls[c].pc = "txn" /\ calls[c].op = "pay"
  /\ LET payer_id == calls[c].uid
         token == calls[c].arg
         creator == calls[c].seen[1]
         amount == calls[c].seen[2]
         committed == [uwt |-> uwt, tx |-> tx, bills_uwt |-> bills_uwt]
         updated == [committed EXCEPT
                       !.uwt = UpdateBal(UpdateBal(uwt, payer_id, -amount), creator, amount)]
         paid == [updated EXCEPT
                    !.bills_uwt = [bills_uwt EXCEPT ![token].status = "paid",
                                                    ![token].paid_by_tg_id = payer_id],
                    !.tx = InsertTx(InsertTx(tx, payer_id, "UWT", -amount, "bill_pay", token),
                                    creator, "UWT", amount, "bill_receive", token)]
         final == IF PayRowcount(token) # 1 THEN CloseWithoutCommit(committed, updated) ELSE paid
     IN /\ uwt' = final.uwt /\ tx' = final.tx /\ bills_uwt' = final.bills_uwt
        /\ calls' = [calls EXCEPT ![c].pc = "done",
                       ![c].result = IF PayRowcount(token) # 1 THEN "AlreadyPaid" ELSE "ok"]
  /\ UNCHANGED <<users, rub, bookVars, checkVars, poolVars, grantVars, rate, now, ret>>

\* ----------------------------------- giveaways (main3.py 872-907, 1415-1486)
\* gw_pick_time: the creator's balance is checked, then the prize is debited and the
\* giveaway inserted in one transaction; it ends one unit of time from now
CreateGiveaway(uid, prize) ==
  IF prize <= 0
  THEN /\ ret' = [op |-> "create_giveaway", ok |-> FALSE, msg |-> "InvalidInput"]
       /\ UNCHANGED <<users, ledgerVars, bookVars, checkVars, bills_uwt, poolVars, grantVars, rate, calls, now>>
  ELSE IF GetBalance(uwt, uid) < prize
  THEN /\ ret' = [op |-> "create_giveaway", ok |-> FALSE, msg |-> "InsufficientFunds"]
       /\ UNCHANGED <<users, ledgerVars, bookVars, checkVars, bills_uwt, poolVars, grantVars, rate, calls, now>>
  ELSE /\ uwt' = UpdateBal(uwt, uid, -prize)
       /\ giveaways' = Append(giveaways,
            [creator_tg_id |-> uid, amount |-> prize, status |-> "active",
             end_at |-> now + 1, winner_tg_id |-> 0])
       /\ tx' = InsertTx(tx, uid, "UWT", -prize, "giveaway_create", Len(giveaways) + 1)
       /\ ret' = [op |-> "create_giveaway", ok |-> TRUE, msg |-> "created"]
       /\ UNCHANGED <<users, rub, bookVars, checkVars, bills_uwt, giveaway_participants, grantVars, rate,
                      calls, now>>

\* gw_join, lines 1471-1478: call c reads the status of the giveaway; any Telegram
\* user can send the callback, the handler does not call ensure_user
JoinRead(c, uid, gid) ==
  /\ calls[c].pc = "idle"
  /\ IF gid \notin 1..Len(giveaways) \/ giveaways[gid].status # "active"
     THEN /\ ret' = [op |-> "join", ok |-> FALSE, msg |-> "Unavailable"]
          /\ UNCHANGED calls
     ELSE /\ calls' = [calls EXCEPT ![c] =
               [IdleCall EXCEPT !.pc = "insert", !.op = "join", !.uid = uid, !.arg = gid]]
          /\ UNCHANGED ret
  /\ UNCHANGED <<users, ledgerVars, bookVars, checkVars, bills_uwt, poolVars, grantVars, rate, now>>

\* gw_join, lines 1479-1486: the insert, refused by the primary key for a duplicate
JoinInsert(c) ==
  /\ calls[c].pc = "insert" /\ calls[c].op = "join"
  /\ IF <<calls[c].arg, calls[c].uid>> \in giveaway_participants
     THEN /\ ret' = [op |-> "join", ok |-> FALSE, msg |-> "AlreadyJoined"]
          /\ UNCHANGED giveaway_participants
     ELSE /\ giveaway_participants' = giveaway_participants \cup {<<calls[c].arg, calls[c].uid>>}
          /\ ret' = [op |-> "join", ok |-> TRUE, msg |-> "joined"]
  /\ calls' = [calls EXCEPT ![c] = IdleCall]
  /\ UNCHANGED <<users, ledgerVars, bookVars, checkVars, bills_uwt, giveaways, grantVars, rate, now>>

\* finish_due_giveaways, lines 875-876: call c reads the active giveaways
SweepSelect(c) ==
  /\ calls[c].pc = "idle"
  /\ calls' = [calls EXCEPT ![c] =
       [IdleCall EXCEPT !.pc = "rows", !.op = "sweep",
          !.seen = <<{g \in 1..Len(giveaways) : giveaways[g].status = "active"}>>]]
  /\ UNCHANGED <<users, ledgerVars, bookVars, checkVars, bills_uwt, poolVars, grantVars, rate, now, ret>>

\* A pass over the rows that takes every row for not yet due
SweepRowSkips(c, g) ==
  /\ calls[c].pc = "rows" /\ calls[c].op = "sweep"
  /\ g \in calls[c].seen[1]
  /\ calls' = [calls EXCEPT ![c].seen = <<calls[c].seen[1] \ {g}>>]
  /\ UNCHANGED <<users, ledgerVars, bookVars, checkVars, bills_uwt, poolVars, grantVars, rate, now, ret>>

\* lines 878-892: the next row g of the result (the SELECT states no order): skipped
\* if it is not due, otherwise its participants are read and the winner is drawn
SweepRow(c, g) ==
  /\ calls[c].pc = "rows" /\ calls[c].op = "sweep"
  /\ g \in calls[c].seen[1]
  /\ LET ps == {u \in Users : <<g, u>> \in giveaway_participants}
         rest == <<calls[c].seen[1] \ {g}>>
     IN IF giveaways[g].end_at > now
        THEN calls' = [calls EXCEPT ![c].seen = rest]
        ELSE \E winner \in (IF ps = {} THEN {0} ELSE ps) :
               calls' = [calls EXCEPT ![c].pc = "credit", ![c].arg = g, ![c].uid = winner,
                                      ![c].seen = rest]
  /\ UNCHANGED <<users, ledgerVars, bookVars, checkVars, bills_uwt, poolVars, grantVars, rate, now, ret>>

\* lines 894-905: the credit of the winner, or of the creator when nobody joined, the
\* log entry and the status, committed together
SweepFinish(c) ==
  /\ calls[c].pc = "credit" /\ calls[c].op = "sweep"
  /\ LET gid == calls[c].arg
         winner == calls[c].uid
         amount == giveaways[gid].amount
         creator == giveaways[gid].creator_tg_id
     IN /\ uwt' = UpdateBal(uwt, IF winner = 0 THEN creator ELSE winner, amount)
        /\ tx' = IF winner = 0
                 THEN InsertTx(tx, creator, "UWT", amount, "giveaway_refund", gid)
                 ELSE InsertTx(tx, winner, "UWT", amount, "giveaway_win", gid)
        /\ giveaways' = [giveaways EXCEPT ![gid].status = "finished",
                                          ![gid].winner_tg_id = winner]
  /\ calls' = [calls EXCEPT ![c].pc = "rows", ![c].arg = 0, ![c].uid = 0]
  /\ UNCHANGED <<users, rub, bookVars, checkVars, bills_uwt, giveaway_participants, grantVars, rate, now, ret>>

\* lines 906-907: no row is left, the sweep returns
SweepReturn(c) ==
  /\ calls[c].pc = "rows" /\ calls[c].op = "sweep"
  /\ calls[c].seen[1] = {}
  /\ calls' = [calls EXCEPT ![c] = IdleCall]
  /\ UNCHANGED <<users, ledgerVars, bookVars, checkVars, bills_uwt, poolVars, grantVars, rate, now, ret>>

\* The process dies during a sweep: what it has not committed is rolled back
SweepAbort(c) ==
  /\ calls[c].pc \in {"rows", "credit"} /\ calls[c].op = "sweep"
  /\ calls' = [calls EXCEPT ![c] = IdleCall]
  /\ UNCHANGED <<users, ledgerVars, bookVars, checkVars, bills_uwt, poolVars, grantVars, rate, now, ret>>

(***************************************************************************)
(* The exchange at the administrator's rate: get_rate, set_rate,           *)
(* exchange_buy (RUB to UWT) and exchange_sell (UWT to RUB).               *)
(***************************************************************************)
MaxSwaps == 2

\* admin_rate, lines 1207-1217: a rate above zero replaces the row of settings
SetRate(v) ==
  /\ v > 0
  /\ rate' = v
  /\ UNCHANGED <<users, ledgerVars, bookVars, checkVars, bills_uwt, poolVars, grantVars, calls, now, ret>>

\* uwt_get = rub_amount / rate (line 560), rub_get = uwt_amount * rate (line 579); the
\* amounts asked are multiples of every rate set, so the quotient is exact
SwapGet(kind, amount, r) == IF kind = "exchange_buy" THEN amount \div r ELSE amount * r

\* exchange_buy / exchange_sell, lines 554-556: the amount is validated and get_rate()
\* reads the rate on a connection of its own
ExchangeRate(c, uid, kind, amount) ==
  /\ calls[c].pc = "idle"
  /\ IF amount <= 0
     THEN /\ ret' = [op |-> kind, ok |-> FALSE, msg |-> "InvalidInput"]
          /\ UNCHANGED calls
     ELSE /\ calls' = [calls EXCEPT ![c] =
               [IdleCall EXCEPT !.pc = "bal", !.op = kind, !.uid = uid, !.arg = amount,
                                !.seen = <<rate>>]]
          /\ UNCHANGED ret
  /\ UNCHANGED <<users, ledgerVars, bookVars, checkVars, bills_uwt, poolVars, grantVars, rate, now>>

\* lines 557-559: get_balances() reads the source balance on a connection of its own
ExchangeBalance(c) ==
  /\ calls[c].pc = "bal" /\ calls[c].op \in {"exchange_buy", "exchange_sell"}
  /\ LET source == IF calls[c].op = "exchange_buy" THEN rub ELSE uwt IN
     IF GetBalance(source, calls[c].uid) < calls[c].arg
     THEN /\ ret' = [op |-> calls[c].op, ok |-> FALSE, msg |-> "InsufficientFunds"]
          /\ calls' = [calls EXCEPT ![c] = IdleCall]
     ELSE /\ calls' = [calls EXCEPT ![c].pc = "txn"]
          /\ UNCHANGED ret
  /\ UNCHANGED <<users, ledgerVars, bookVars, checkVars, bills_uwt, poolVars, grantVars, rate, now>>

\* lines 561-570: the transaction debits the source, credits the target and logs both
\* legs with the rate the call read
ExchangeTxn(c) ==
  /\ calls[c].pc = "txn" /\ calls[c].op \in {"exchange_buy", "exchange_sell"}
  /\ LET uid == calls[c].uid
         kind == calls[c].op
         amount == calls[c].arg
         get == SwapGet(kind, amount, calls[c].seen[1])
     IN IF kind = "exchange_buy"
        THEN /\ rub' = UpdateBal(rub, uid, -amount)
             /\ uwt' = UpdateBal(uwt, uid, get)
             /\ tx' = InsertTx(InsertTx(tx, uid, "RUB", -amount, kind, calls[c].seen[1]),
                               uid, "UWT", get, kind, calls[c].seen[1])
        ELSE /\ uwt' = UpdateBal(uwt, uid, -amount)
             /\ rub' = UpdateBal(rub, uid, get)
             /\ tx' = InsertTx(InsertTx(tx, uid, "UWT", -amount, kind, calls[c].seen[1]),
                               uid, "RUB", get, kind, calls[c].seen[1])
  /\ ret' = [op |-> calls[c].op, ok |-> TRUE, msg |-> "exchanged"]
  /\ calls' = [calls EXCEPT ![c] = IdleCall]
  /\ UNCHANGED <<users, bookVars, checkVars, bills_uwt, poolVars, grantVars, rate, now>>

(***************************************************************************)
(* Paid channel subscriptions: ch_sub, sub_upsert, due_subs, subs_worker.  *)
(* Time is counted in days; a grant is the row of channel_subs for the     *)
(* pair <<channel, user_tg_id>>, its value the day it expires.             *)
(***************************************************************************)
MaxDay == 30
SubDays == 30

\* The one row of table channels: id, owner and the price of 30 days.
Channel == [id |-> 1, owner_tg_id |-> 1, price_uwt |-> 5]

\* channel_get(cid): the row, or a row of price 0 owned by nobody for "not found".
ChannelGet(cid) == IF cid = Channel.id THEN Channel ELSE [id |-> 0, owner_tg_id |-> 0, price_uwt |-> 0]

HasGrant(subs, cid, uid) == <<cid, uid>> \in DOMAIN subs

\* INSERT ... ON CONFLICT(channel_id,user_tg_id) DO UPDATE SET expires_at=excluded.expires_at
SubUpsert(subs, cid, uid, expires_at) ==
  [k \in DOMAIN subs \cup {<<cid, uid>>} |-> IF k = <<cid, uid>> THEN expires_at ELSE subs[k]]

\* The payment transaction of ch_sub: subscriber debited, owner credited, two log rows.
SubPayFree(bal, uid, owner, price) == bal

SubPay(bal, uid, owner, price) == UpdateBal(UpdateBal(bal, uid, -price), owner, price)

\* ch_sub: no await between the balance check and sub_upsert, so the handler is one step.
ChSub(uid, cid) ==
  LET c == ChannelGet(cid)
      price == c.price_uwt
      owner == c.owner_tg_id
  IN
  IF c.id = 0
  THEN /\ ret' = [op |-> "ch_sub", ok |-> FALSE, msg |-> "NotFound"]
       /\ UNCHANGED <<users, ledgerVars, bookVars, checkVars, bills_uwt, poolVars, grantVars, rate, calls, now>>
  ELSE IF GetBalance(uwt, uid) < price
  THEN /\ ret' = [op |-> "ch_sub", ok |-> FALSE, msg |-> "InsufficientFunds"]
       /\ UNCHANGED <<users, ledgerVars, bookVars, checkVars, bills_uwt, poolVars, grantVars, rate, calls, now>>
  ELSE /\ uwt' = SubPay(uwt, uid, owner, price)
       /\ tx' = InsertTx(InsertTx(tx, uid, "UWT", -price, "channel_sub_pay", cid),
                         owner, "UWT", price, "channel_sub_recv", cid)
       /\ channel_subs' = SubUpsert(channel_subs, cid, uid, now + SubDays)
       /\ ret' = [op |-> "ch_sub", ok |-> TRUE, msg |-> "subscribed"]
       /\ UNCHANGED <<users, rub, bookVars, checkVars, bills_uwt, poolVars, rate, calls, now>>

\* due_subs(): the rows with expires_at <= now, read by subs_worker before its first await.
DueSubs(subs, t) == {k \in DOMAIN subs : subs[k] <= t}

SubsSelect(c) ==
  /\ calls[c].pc = "idle"
  /\ \A d \in CallIds : calls[d].op # "subs"
  /\ DueSubs(channel_subs, now) # {}
  /\ calls' = [calls EXCEPT ![c] = [IdleCall EXCEPT !.pc = "rows", !.op = "subs",
                                                    !.seen = DueSubs(channel_subs, now)]]
  /\ UNCHANGED <<users, ledgerVars, bookVars, checkVars, bills_uwt, poolVars, grantVars, rate, now, ret>>

\* One turn of the loop body: kick the member, then DELETE FROM channel_subs WHERE id=?.
\* The upsert keeps the id of an existing row, so the id is the pair itself.
SubsDelete(c) ==
  /\ calls[c].pc = "rows" /\ calls[c].op = "subs"
  /\ \E k \in calls[c].seen :
       /\ channel_subs' = [j \in DOMAIN channel_subs \ {k} |-> channel_subs[j]]
       /\ calls' = [calls EXCEPT ![c] =
                      IF calls[c].seen = {k} THEN IdleCall ELSE [@ EXCEPT !.seen = @ \ {k}]]
  /\ UNCHANGED <<users, ledgerVars, bookVars, checkVars, bills_uwt, poolVars, rate, now, ret>>

\* Ten days pass.
Days ==
  /\ now < MaxDay
  /\ now' = now + 10
  /\ UNCHANGED <<users, ledgerVars, bookVars, checkVars, bills_uwt, poolVars, grantVars, rate, calls, ret>>


\* ------------------------------------------------- specification of the book
Traders == {1, 2}
Funding == [UWT |-> 20, RUB |-> 240]

\* /give and /giverub (main3.py 1916-1966) have credited each trader once
FundingLog ==
  <<[tg_id |-> 1, asset |-> "UWT", delta |-> Funding.UWT, kind |-> "admin_give", meta |-> 0],
    [tg_id |-> 1, asset |-> "RUB", delta |-> Funding.RUB, kind |-> "admin_give", meta |-> 0],
    [tg_id |-> 2, asset |-> "UWT", delta |-> Funding.UWT, kind |-> "admin_give", meta |-> 0],
    [tg_id |-> 2, asset |-> "RUB", delta |-> Funding.RUB, kind |-> "admin_give", meta |-> 0]>>

InitBook ==
  /\ users = Traders
  /\ uwt = [u \in Users |-> IF u \in Traders THEN Funding.UWT ELSE 0]
  /\ rub = [u \in Users |-> IF u \in Traders THEN Funding.RUB ELSE 0]
  /\ tx = FundingLog
  /\ orders = <<>>
  /\ trades = <<>>
  /\ released = <<>>
  /\ outOfTurn = 0
  /\ checks = <<>> /\ check_claims = {}
  /\ bills_uwt = <<>>
  /\ giveaways = <<>> /\ giveaway_participants = {} /\ channel_subs = <<>>
  /\ rate = DEFAULT_RATE_RUB_PER_UWT
  /\ calls = [c \in CallIds |-> IdleCall]
  /\ now = 0
  /\ ret = NoRet

\* Placements, with time passing between them
NextBook ==
  \/ /\ Len(orders) < MaxOrders
     /\ \E u \in Traders, sd \in Sides, p \in Prices, a \in Amounts : PlaceOrder(u, sd, p, a)
  \/ Tick

SpecBook == InitBook /\ [][NextBook]_vars

\* Placements by overlapping calls of trader 1 and of account 3, which never
\* registered, with prices and amounts that include zero and orders the funding
\* does not cover
Placers == {1, 3}

PlacePrices == {0, 12}

PlaceAmounts == {0, 10, 20}

NextPlace ==
  \/ /\ Len(orders) < MaxPair
     /\ \E c \in CallIds, u \in Placers, sd \in Sides, p \in PlacePrices, a \in PlaceAmounts :
          PlaceTxn(c, u, sd, p, a)
  \/ \E c \in CallIds : MatchTxn(c)

SpecPlace == InitBook /\ [][NextPlace]_vars

\* The first placements on an empty book
NextPair ==
  \/ /\ Len(orders) < MaxPair
     /\ \E u \in Traders, sd \in Sides, p \in Prices, a \in Amounts : PlaceOrder(u, sd, p, a)
  \/ Tick

SpecPair == InitBook /\ [][NextPair]_vars

\* Account 1 sells 10 at a time, account 2 buys 4 or 8 at a time
NextChain ==
  \/ /\ Len(orders) < MaxChain
     /\ \E p \in Prices :
          \/ PlaceOrder(1, "sell", p, 10)
          \/ \E a \in {4, 8} : PlaceOrder(2, "buy", p, a)
  \/ Tick

SpecChain == InitBook /\ [][NextChain]_vars

\* Concurrent placements, matching passes and cancellations
NextRace ==
  \/ /\ Len(orders) < MaxRace
     /\ \E c \in CallIds, u \in Traders, sd \in Sides, p \in Prices, a \in {6, 10} :
          PlaceTxn(c, u, sd, p, a)
  \/ \E c \in CallIds : MatchTxn(c)
  \/ \E c \in CallIds, u \in Traders, o \in 1..MaxRace : CancelRead(c, u, o)
  \/ \E c \in CallIds : CancelTxn(c)

SpecRace == InitBook /\ [][NextRace]_vars

\* Concurrent placements and their matching passes
NextPasses ==
  \/ /\ Len(orders) < MaxOrders
     /\ \E c \in CallIds, u \in Traders, sd \in Sides, p \in Prices, a \in {4, 10} :
          PlaceTxn(c, u, sd, p, a)
  \/ \E c \in CallIds : MatchTxn(c)

SpecPasses == InitBook /\ [][NextPasses]_vars

\* Overlapping calls: account 1 places sell orders of 4, account 2 buy orders of 10,
\* each followed by its matching pass
CrossPrices == {10, 12}

NextCross ==
  \/ /\ Len(orders) < MaxChain
     /\ \E c \in CallIds, p \in CrossPrices :
          \/ PlaceTxn(c, 1, "sell", p, 4)
          \/ PlaceTxn(c, 2, "buy", p, 10)
  \/ \E c \in CallIds : MatchTxn(c)

SpecCross == InitBook /\ [][NextCross]_vars

\* Overlapping calls: account 1 places sell orders of 6, account 2 buy orders of 2,
\* all at one price, each followed by its matching pass
NextBurst ==
  \/ /\ Len(orders) < MaxBurst
     /\ \E c \in CallIds :
          \/ PlaceTxn(c, 1, "sell", 10, 6)
          \/ PlaceTxn(c, 2, "buy", 10, 2)
  \/ \E c \in CallIds : MatchTxn(c)

SpecBurst == InitBook /\ [][NextBurst]_vars

\* Placements and cancellations
NextCancel ==
  \/ /\ Len(orders) < MaxCancel
     /\ \E u \in Traders, sd \in Sides, p \in Prices, a \in {6, 10} : PlaceOrder(u, sd, p, a)
  \/ \E u \in Traders, o \in 1..Len(orders) : CancelOrder(u, o)

SpecCancel == InitBook /\ [][NextCancel]_vars


\* --------------------------------------------- specifications of the vouchers
\* Every account exists and /give has credited it 10 UWT
WalletLog ==
  <<[tg_id |-> 1, asset |-> "UWT", delta |-> 10, kind |-> "admin_give", meta |-> 0],
    [tg_id |-> 2, asset |-> "UWT", delta |-> 10, kind |-> "admin_give", meta |-> 0],
    [tg_id |-> 3, asset |-> "UWT", delta |-> 10, kind |-> "admin_give", meta |-> 0]>>

InitWallet ==
  /\ users = Users
  /\ uwt = [u \in Users |-> 10]
  /\ rub = [u \in Users |-> 0]
  /\ tx = WalletLog
  /\ orders = <<>> /\ trades = <<>> /\ released = <<>> /\ outOfTurn = 0
  /\ checks = <<>> /\ check_claims = {}
  /\ bills_uwt = <<>>
  /\ giveaways = <<>> /\ giveaway_participants = {} /\ channel_subs = <<>>
  /\ rate = DEFAULT_RATE_RUB_PER_UWT
  /\ calls = [c \in CallIds |-> IdleCall]
  /\ now = 0
  /\ ret = NoRet

\* <<total_amount, per_claim, max_claims>> of the vouchers created
CheckShapes == {<<10, 10, 1>>, <<10, 5, 2>>, <<5, 5, 2>>}

\* The state create_check_multi leaves when account u creates the first voucher
VoucherCreated(u, sh, pw) ==
  /\ users = Users
  /\ uwt = [v \in Users |-> IF v = u THEN 10 - sh[1] ELSE 10]
  /\ rub = [v \in Users |-> 0]
  /\ tx = InsertTx(WalletLog, u, "UWT", -sh[1], "check_create", 1)
  /\ orders = <<>> /\ trades = <<>> /\ released = <<>> /\ outOfTurn = 0
  /\ checks = <<[creator_tg_id |-> u, total_amount |-> sh[1], per_claim |-> sh[2],
                 max_claims |-> sh[3], claimed_count |-> 0,
                 passhash |-> IF pw # 0 THEN Sha256(pw) ELSE 0, status |-> "active"]>>
  /\ check_claims = {}
  /\ bills_uwt = <<>>
  /\ giveaways = <<>> /\ giveaway_participants = {} /\ channel_subs = <<>>
  /\ rate = DEFAULT_RATE_RUB_PER_UWT
  /\ calls = [c \in CallIds |-> IdleCall]
  /\ now = 0
  /\ ret = [op |-> "create_check", ok |-> TRUE, msg |-> "token"]

InitCheck ==
  \E u \in Users, sh \in {x \in CheckShapes : x[1] >= x[2] * x[3]}, pw \in {0, 1} :
    VoucherCreated(u, sh, pw)

\* Concurrent claims of the voucher (token 1) and of an unknown token (2)
NextCheck ==
  \/ \E c \in CallIds, u \in Users, t \in {1, 2}, pw \in {0, 1} : ClaimRead(c, u, t, pw)
  \/ \E c \in CallIds : ClaimTxn(c)

SpecCheck == InitCheck /\ [][NextCheck]_vars

\* Vouchers created by account 1 and claimed by anyone, one call at a time, each
\* account holding 100 UWT at first:
\* token 1..MaxChecks are the vouchers made, the next one is unknown; once
\* MaxChecks vouchers exist only creates the balance cannot cover are asked
VoucherLog ==
  <<[tg_id |-> 1, asset |-> "UWT", delta |-> 100, kind |-> "admin_give", meta |-> 0],
    [tg_id |-> 2, asset |-> "UWT", delta |-> 100, kind |-> "admin_give", meta |-> 0],
    [tg_id |-> 3, asset |-> "UWT", delta |-> 100, kind |-> "admin_give", meta |-> 0]>>

InitVoucher ==
  /\ users = Users
  /\ uwt = [u \in Users |-> 100]
  /\ rub = [u \in Users |-> 0]
  /\ tx = VoucherLog
  /\ orders = <<>> /\ trades = <<>> /\ released = <<>> /\ outOfTurn = 0
  /\ checks = <<>> /\ check_claims = {}
  /\ bills_uwt = <<>>
  /\ giveaways = <<>> /\ giveaway_participants = {} /\ channel_subs = <<>>
  /\ rate = DEFAULT_RATE_RUB_PER_UWT
  /\ calls = [c \in CallIds |-> IdleCall]
  /\ now = 0
  /\ ret = NoRet

\* <<total_amount, per_claim, max_claims>> asked of create_check_multi: three that
\* pass, then a zero total, a zero per_claim, a zero max_claims, per_claim * max_claims
\* above the total, and a total above the balance
VoucherShapes ==
  {<<100, 100, 1>>, <<100, 50, 2>>, <<100, 40, 2>>,
   <<0, 0, 1>>, <<100, 0, 1>>, <<100, 100, 0>>, <<50, 50, 2>>, <<200, 100, 2>>}

NextVoucher ==
  \/ \E u \in {1}, sh \in VoucherShapes, pw \in {0, 1} :
       /\ Len(checks) < MaxChecks \/ GetBalance(uwt, u) < sh[1]
       /\ CreateCheck(u, sh[1], sh[2], sh[3], pw)
  \/ \E u \in Users, t \in 1..(MaxChecks + 1), pw \in {0, 1, 2} : ClaimCheckByToken(u, t, pw)

SpecVoucher == InitVoucher /\ [][NextVoucher]_vars

\* Vouchers without password created by account 1, and claimed by accounts 2 and 3
\* in calls that overlap, each call free to start again once it has returned
IssueShapes == {<<50, 50, 1>>, <<100, 40, 2>>, <<50, 50, 2>>}

NextIssue ==
  \/ \E sh \in IssueShapes :
       /\ Len(checks) < MaxChecks
       /\ CreateCheck(1, sh[1], sh[2], sh[3], 0)
  \/ \E c \in CallIds, u \in {2, 3}, t \in 1..MaxChecks : ClaimRead(c, u, t, 0)
  \/ \E c \in CallIds : ClaimTxn(c)
  \/ \E c \in CallIds : CallReturn(c)

SpecIssue == InitVoucher /\ [][NextIssue]_vars

\* Vouchers are created by concurrent calls
NextDebit ==
  \/ \E c \in CallIds, u \in Users, sh \in CheckShapes, pw \in {0, 1} :
       CreateCheckRead(c, u, sh[1], sh[2], sh[3], pw)
  \/ \E c \in CallIds : CreateCheckTxn(c)

SpecDebit == InitWallet /\ [][NextDebit]_vars

\* Bills are created and paid by concurrent calls
NextBill ==
  \/ /\ Len(bills_uwt) < MaxBills
     /\ \E u \in Users, a \in {0, 5, 10} : CreateBill(u, a)
  \/ \E c \in CallIds, u \in Users, t \in 1..MaxBills : PayRead(c, u, t)
  \/ \E c \in CallIds : PayBalance(c)
  \/ \E c \in CallIds : PayTxn(c)

SpecBill == InitWallet /\ [][NextBill]_vars

\* Accounts 1 and 2 have pressed /start and hold 10 UWT; tg_id 3 has no account
PoolLog ==
  <<[tg_id |-> 1, asset |-> "UWT", delta |-> 10, kind |-> "admin_give", meta |-> 0],
    [tg_id |-> 2, asset |-> "UWT", delta |-> 10, kind |-> "admin_give", meta |-> 0]>>

InitPool ==
  /\ users = {1, 2}
  /\ uwt = [u \in Users |-> IF u \in {1, 2} THEN 10 ELSE 0]
  /\ rub = [u \in Users |-> 0]
  /\ tx = PoolLog
  /\ orders = <<>> /\ trades = <<>> /\ released = <<>> /\ outOfTurn = 0
  /\ checks = <<>> /\ check_claims = {}
  /\ bills_uwt = <<>>
  /\ giveaways = <<>> /\ giveaway_participants = {} /\ channel_subs = <<>>
  /\ rate = DEFAULT_RATE_RUB_PER_UWT
  /\ calls = [c \in CallIds |-> IdleCall]
  /\ now = 0
  /\ ret = NoRet

\* Giveaways are created and joined while time passes and sweeps run
NextPool ==
  \/ /\ Len(giveaways) < MaxPools
     /\ \E u \in Users, a \in {0, 5} : CreateGiveaway(u, a)
  \/ \E c \in CallIds, u \in Users, g \in 1..MaxPools : JoinRead(c, u, g)
  \/ \E c \in CallIds : JoinInsert(c)
  \/ \E c \in CallIds : SweepSelect(c)
  \/ \E c \in CallIds, g \in 1..MaxPools : SweepRow(c, g)
  \/ \E c \in CallIds : SweepFinish(c)
  \/ \E c \in CallIds : SweepReturn(c)
  \/ \E c \in CallIds : SweepAbort(c)
  \/ Tick

SpecPool == InitPool /\ [][NextPool]_vars

\* giveaways_worker (main3.py 1861-1881): one task that calls finish_due_giveaways
\* again and again; call 1 is the worker, the other calls are the join callbacks
Worker == 1

WorkerStep ==
  \/ SweepSelect(Worker)
  \/ \E g \in 1..MaxPools : SweepRow(Worker, g)
  \/ SweepFinish(Worker)
  \/ SweepReturn(Worker)

NextSweep ==
  \/ /\ Len(giveaways) < MaxPools
     /\ \E a \in {5, 10} : CreateGiveaway(1, a)
  \/ \E c \in CallIds \ {Worker}, g \in 1..MaxPools : JoinRead(c, 2, g)
  \/ \E c \in CallIds \ {Worker} : JoinInsert(c)
  \/ WorkerStep
  \/ Tick

\* The worker's loop never stops: whenever it can take its next step it takes it
SpecSweep == InitPool /\ [][NextSweep]_vars /\ WF_vars(WorkerStep)


\* The operations that can refuse, by overlapping calls of the two funded traders
\* (20 UWT, 240 RUB each): vouchers of account 1 claimed by account 2, invoices of
\* account 1 paid by either, sell orders of account 2 cancelled by either. A run
\* works on vouchers, on invoices or on orders: the three meet only in the balances.
FaultShapes == {<<0, 0, 1>>, <<10, 10, 1>>, <<30, 10, 1>>}

NextFaults ==
  \/ /\ bills_uwt = <<>> /\ orders = <<>>
     /\ \/ \E sh \in FaultShapes :
             /\ Len(checks) < MaxChecks
             /\ CreateCheck(1, sh[1], sh[2], sh[3], 1)
        \/ \E c \in CallIds, t \in 1..(MaxChecks + 1), pw \in {0, 1, 2} : ClaimRead(c, 2, t, pw)
        \/ \E c \in CallIds : ClaimTxn(c)
  \/ /\ checks = <<>> /\ orders = <<>>
     /\ \/ \E a \in {0, 10, 30} :
             /\ Len(bills_uwt) < MaxBills
             /\ CreateBill(1, a)
        \/ \E c \in CallIds, u \in Traders, t \in 1..MaxBills : PayRead(c, u, t)
        \/ \E c \in CallIds : PayBalance(c)
        \/ \E c \in CallIds : PayBillUwtTxn(c)
  \/ /\ checks = <<>> /\ bills_uwt = <<>>
     /\ \/ \E c \in CallIds, a \in {0, 20} :
             /\ Len(orders) < MaxPair
             /\ PlaceTxn(c, 2, "sell", 12, a)
        \/ \E c \in CallIds : MatchTxn(c)
        \/ \E c \in CallIds, u \in Traders, o \in 1..MaxPair : CancelRead(c, u, o)
        \/ \E c \in CallIds : CancelTxn(c)

SpecFaults == InitBook /\ [][NextFaults]_vars

\* The exchange: trader 1, funded as on the order book, converts in calls that
\* overlap while the administrator moves the rate between 10 and 20
SwapRates == {DEFAULT_RATE_RUB_PER_UWT, 2 * DEFAULT_RATE_RUB_PER_UWT}

SwapAmounts == {0, 20, 400}

NextSwap ==
  \/ \E v \in SwapRates : SetRate(v)
  \/ \E c \in CallIds, k \in {"exchange_buy", "exchange_sell"}, a \in SwapAmounts :
       /\ Len(tx) < Len(FundingLog) + 2 * MaxSwaps
       /\ ExchangeRate(c, 1, k, a)
  \/ \E c \in CallIds : ExchangeBalance(c)
  \/ \E c \in CallIds : ExchangeTxn(c)

SpecSwap == InitBook /\ [][NextSwap]_vars

\* Subscriptions: accounts 2 and 3 hold 10 UWT and buy 30 days of the channel of
\* account 1 at 5 UWT, over the days 0..MaxDay, with the expiry worker running.
Subscribers == {2, 3}

NextGrant ==
  \/ \E u \in Subscribers, cid \in {Channel.id, 2} : ChSub(u, cid)
  \/ \E c \in {1} : SubsSelect(c)
  \/ \E c \in {1} : SubsDelete(c)
  \/ Days

SpecGrant == InitWallet /\ [][NextGrant]_vars


\* The administrator adjusts balances while vouchers are created
NextAdmin ==
  \/ /\ Len(tx) < Len(WalletLog) + MaxAdjust
     /\ \E u \in Users, a \in Assets, d \in {-5, 5} : AdminAdjust(u, a, d)
  \/ /\ Len(checks) < MaxChecks
     /\ \E u \in Users, sh \in CheckShapes, pw \in {0, 1} : CreateCheck(u, sh[1], sh[2], sh[3], pw)

SpecAdmin == InitWallet /\ [][NextAdmin]_vars

\* ------------------------------------------------------------------ measures
RECURSIVE SumBal(_, _)
SumBal(bal, S) ==
  IF S = {} THEN 0 ELSE LET u == CHOOSE v \in S : TRUE IN bal[u] + SumBal(bal, S \ {u})

\* What the open orders hold of an asset: price * remaining of RUB for a buy,
\* remaining of UWT for a sell
RECURSIVE OrdersLocked(_, _, _)
OrdersLocked(ords, asset, i) ==
  IF i > Len(ords) THEN 0
  ELSE (IF ords[i].status # "open" THEN 0
        ELSE IF ords[i].side = "buy" /\ asset = "RUB" THEN ords[i].price * ords[i].remaining
        ELSE IF ords[i].side = "sell" /\ asset = "UWT" THEN ords[i].remaining
        ELSE 0) + OrdersLocked(ords, asset, i + 1)

\* The administrator's credits minus debits of an asset, from the log
RECURSIVE AdminIssued(_, _, _)
AdminIssued(log, asset, i) ==
  IF i > Len(log) THEN 0
  ELSE (IF log[i].asset = asset /\ log[i].kind \in {"admin_give", "admin_adjust"}
        THEN log[i].delta ELSE 0) + AdminIssued(log, asset, i + 1)

\* What the active vouchers still hold: what was reserved and is not yet claimed
RECURSIVE ChecksReserved(_, _)
ChecksReserved(chs, i) ==
  IF i > Len(chs) THEN 0
  ELSE (IF chs[i].status = "active"
        THEN chs[i].total_amount - chs[i].claimed_count * chs[i].per_claim ELSE 0)
       + ChecksReserved(chs, i + 1)

\* What the vouchers took from their creators and have not paid out to claimants
RECURSIVE ChecksUnclaimed(_, _)
ChecksUnclaimed(chs, i) ==
  IF i > Len(chs) THEN 0
  ELSE chs[i].total_amount - chs[i].claimed_count * chs[i].per_claim
       + ChecksUnclaimed(chs, i + 1)

\* The check_claim log rows that credit account uid from voucher token
RECURSIVE CreditsTo(_, _, _, _)
CreditsTo(log, uid, token, i) ==
  IF i > Len(log) THEN 0
  ELSE (IF log[i].kind = "check_claim" /\ log[i].tg_id = uid /\ log[i].meta = token
        THEN 1 ELSE 0) + CreditsTo(log, uid, token, i + 1)

\* The prizes of the active giveaways
RECURSIVE PoolsReserved(_, _)
PoolsReserved(gws, i) ==
  IF i > Len(gws) THEN 0
  ELSE (IF gws[i].status = "active" THEN gws[i].amount ELSE 0) + PoolsReserved(gws, i + 1)

\* All that is held in escrow of an asset; vouchers and prizes are in UWT
Escrowed(asset) ==
  OrdersLocked(orders, asset, 1)
  + (IF asset = "UWT" THEN ChecksReserved(checks, 1) + PoolsReserved(giveaways, 1) ELSE 0)

\* The quantity of the trades an order took part in
RECURSIVE TradedQty(_, _, _)
TradedQty(trs, oid, i) ==
  IF i > Len(trs) THEN 0
  ELSE (IF trs[i].buy_order_id = oid \/ trs[i].sell_order_id = oid THEN trs[i].amount ELSE 0)
       + TradedQty(trs, oid, i + 1)

\* What an order locked at placement, in its locked asset
LockedAtPlacement(o) == IF o.side = "buy" THEN o.price * o.amount ELSE o.amount

\* The log entries of a kind about an entity
RECURSIVE CountTx(_, _, _, _)
CountTx(log, kind, meta, i) ==
  IF i > Len(log) THEN 0
  ELSE (IF log[i].kind = kind /\ log[i].meta = meta THEN 1 ELSE 0) + CountTx(log, kind, meta, i + 1)

\* What the paid bills have moved to account u: received as creator minus paid as payer
RECURSIVE BillsNet(_, _, _)
BillsNet(bills, u, i) ==
  IF i > Len(bills) THEN 0
  ELSE (IF bills[i].status # "paid" THEN 0
        ELSE (IF bills[i].creator_tg_id = u THEN bills[i].amount ELSE 0)
             - (IF bills[i].paid_by_tg_id = u THEN bills[i].amount ELSE 0))
       + BillsNet(bills, u, i + 1)

\* The sum of the log entries of a kind
RECURSIVE SumTx(_, _, _)
SumTx(log, kind, i) ==
  IF i > Len(log) THEN 0
  ELSE (IF log[i].kind = kind THEN log[i].delta ELSE 0) + SumTx(log, kind, i + 1)

\* (limit price of the buy order - trade price) * quantity, summed over the trades
RECURSIVE RebatesDue(_, _, _)
RebatesDue(trs, ords, i) ==
  IF i > Len(trs) THEN 0
  ELSE (ords[trs[i].buy_order_id].price - trs[i].price) * trs[i].amount
       + RebatesDue(trs, ords, i + 1)

\* The sum of the log entries of an account in an asset
RECURSIVE AccountSum(_, _, _, _)
AccountSum(log, uid, asset, i) ==
  IF i > Len(log) THEN 0
  ELSE (IF log[i].tg_id = uid /\ log[i].asset = asset THEN log[i].delta ELSE 0)
       + AccountSum(log, uid, asset, i + 1)

\* ------------------------------------------------------------------- claims
\* C1: for each asset, the balances of all accounts plus the amounts held in escrow
\* equal the administrator's credits minus debits, in every reachable state.
C1_Conservation ==
  \A a \in Assets :
    SumBal(IF a = "UWT" THEN uwt ELSE rub, users) + Escrowed(a) = AdminIssued(tx, a, 1)

\* C5: no order's remaining amount is below zero and the quantities of an order's
\* trades never sum to more than its original amount.
C5_TradesWithinAmount ==
  \A i \in 1..Len(orders) :
    /\ orders[i].remaining >= 0
    /\ TradedQty(trades, i, 1) <= orders[i].amount

\* C6: what has been released for an order never exceeds what it locked, and equals
\* it once the order is filled or cancelled.
C6_ReleasedOnce ==
  \A i \in 1..Len(orders) :
    /\ released[i] <= LockedAtPlacement(orders[i])
    /\ orders[i].status \in {"filled", "cancelled"} => released[i] = LockedAtPlacement(orders[i])

\* The book holds exactly a buy (price 12, amount 10) with id b and a sell
\* (price 10, amount 6) with id s
Scenario(b, s) ==
  /\ Len(orders) = 2 /\ {b, s} = {1, 2}
  /\ orders[b].side = "buy" /\ orders[b].price = 12 /\ orders[b].amount = 10
  /\ orders[s].side = "sell" /\ orders[s].price = 10 /\ orders[s].amount = 6

\* C9: buy (12, 10) and sell (10, 6), placed in either order on an empty book, give
\* exactly one trade at price 10 for amount 6; the buy stays open with remaining 4,
\* the sell is filled, the buyer holds 6 UWT more and the seller 60 RUB more.
C9_MatchScenario ==
  \A b, s \in {1, 2} :
    Scenario(b, s) =>
      LET ub == orders[b].user_tg_id
          us == orders[s].user_tg_id
      IN /\ trades = <<[buy_order_id |-> b, sell_order_id |-> s, price |-> 10, amount |-> 6]>>
         /\ orders[b].status = "open" /\ orders[b].remaining = 4
         /\ orders[s].status = "filled" /\ orders[s].remaining = 0
         /\ uwt[ub] = Funding.UWT - (IF ub = us THEN 6 ELSE 0) + 6
         /\ rub[us] = Funding.RUB - (IF ub = us THEN 120 ELSE 0) + 60

\* The scenario of C9 with the sell resting and the buy arriving, between two accounts
C9_Witness ==
  /\ Scenario(2, 1)
  /\ orders[1].user_tg_id # orders[2].user_tg_id
  /\ Len(trades) = 1

\* C10: in that scenario the match refunds the buyer 60 RUB of the 120 locked.
C10_BuyerRefunded60 ==
  \A b, s \in {1, 2} :
    (Scenario(b, s) /\ orders[b].user_tg_id # orders[s].user_tg_id) =>
      rub[orders[b].user_tg_id] = Funding.RUB - 120 + 60

\* C2: after every committed operation every account's balance of each asset is
\* at least 0, administrative adjustments included.
C2_NonNegative == \A u \in users : uwt[u] >= 0 /\ rub[u] >= 0

\* Call c tried to claim voucher 1 with an acceptable password, read it while it was
\* active, and has returned
RacedClaim(c) ==
  /\ calls[c].op = "claim" /\ calls[c].arg = 1 /\ calls[c].pc = "done"
  /\ calls[c].seen = <<"active">>
  /\ checks[1].passhash # 0 => calls[c].pw # 0 /\ Sha256(calls[c].pw) = checks[1].passhash

\* Every call is such an attempt, the claimants are distinct, and the voucher
\* allows one claim
ClaimRace ==
  /\ checks[1].max_claims = 1
  /\ \A c \in CallIds : RacedClaim(c)
  /\ \A c, d \in CallIds : c # d => calls[c].uid # calls[d].uid

\* Call w alone succeeded: one credit of per_claim, one claim record, one log entry,
\* claimed_count 1; every other call returned one of the results in losers
OneClaimed(w, losers) ==
  /\ calls[w].result = "ok"
  /\ \A c \in CallIds \ {w} : calls[c].result \in losers
  /\ check_claims = {<<1, calls[w].uid>>}
  /\ checks[1].claimed_count = 1 /\ checks[1].status = "finished"
  /\ CountTx(tx, "check_claim", 1, 1) = 1
  /\ \A u \in Users :
       uwt[u] = 10 - (IF u = checks[1].creator_tg_id THEN checks[1].total_amount ELSE 0)
                   + (IF u = calls[w].uid THEN checks[1].per_claim ELSE 0)

Payers(t) == {c \in CallIds : calls[c].op = "pay" /\ calls[c].arg = t /\ calls[c].result = "ok"}

\* Every call is a pay of bill t that read the bill while it was active, found the
\* payer's balance sufficient, and has returned
PayRace(t) ==
  \A c \in CallIds :
    /\ calls[c].op = "pay" /\ calls[c].arg = t /\ calls[c].pc = "done"
    /\ calls[c].result \in {"ok", "AlreadyPaid"}

\* C4: of any number of concurrent pay calls on the same active invoice exactly one
\* succeeds: the status goes from active to paid once, the payer is debited and the
\* creator credited the amount exactly once, and every other call fails without
\* moving funds.
C4_PaidOnce ==
  /\ \A t \in 1..Len(bills_uwt) :
       /\ Cardinality(Payers(t)) <= 1
       /\ bills_uwt[t].status = "paid" <=> Payers(t) # {}
       /\ \A c \in Payers(t) : bills_uwt[t].paid_by_tg_id = calls[c].uid
       /\ CountTx(tx, "bill_pay", t, 1) = Cardinality(Payers(t))
       /\ CountTx(tx, "bill_receive", t, 1) = Cardinality(Payers(t))
       /\ PayRace(t) => Cardinality(Payers(t)) = 1
  /\ \A u \in Users : uwt[u] = 10 + BillsNet(bills_uwt, u, 1)
  /\ Len(tx) = Len(WalletLog) + 2 * Cardinality({t \in 1..Len(bills_uwt) : bills_uwt[t].status = "paid"})

\* All the calls raced to pay one bill and one of them lost
C4_Witness ==
  \E t \in 1..Len(bills_uwt) :
    /\ PayRace(t)
    /\ \E c \in CallIds : calls[c].result = "AlreadyPaid"

\* C7: when a prize pool is finalized exactly one account's balance grows by the full
\* prize: a participant of the pool, or its creator (the creator when the pool has no
\* participant); never both, never neither.
C7_OneReceiver ==
  [][\A g \in 1..Len(giveaways) :
       (giveaways[g].status = "active" /\ giveaways'[g].status = "finished") =>
         LET ps == {u \in Users : <<g, u>> \in giveaway_participants}
         IN \E w \in ps \cup {giveaways[g].creator_tg_id} :
              /\ ps = {} => w = giveaways[g].creator_tg_id
              /\ uwt'[w] = uwt[w] + giveaways[g].amount
              /\ \A v \in Users \ {w} : uwt'[v] = uwt[v]]_vars

ChainOrders(s, b4, b8) ==
  /\ Len(orders) = 3 /\ {s, b4, b8} = {1, 2, 3}
  /\ orders[s].side = "sell" /\ orders[s].amount = 10
  /\ orders[b4].side = "buy" /\ orders[b4].amount = 4 /\ orders[b4].price >= orders[s].price
  /\ orders[b8].side = "buy" /\ orders[b8].amount = 8 /\ orders[b8].price >= orders[s].price

\* Two trades of the sell s summing to 10; the sell is filled; the buy given first
\* traded first and is filled, the other stays open with remaining 2
ChainOutcome(s, first, second) ==
  /\ Len(trades) = 2
  /\ trades[1].sell_order_id = s /\ trades[2].sell_order_id = s
  /\ trades[1].amount + trades[2].amount = 10
  /\ orders[s].status = "filled" /\ orders[s].remaining = 0
  /\ trades[1].buy_order_id = first /\ trades[1].amount = orders[first].amount
  /\ trades[2].buy_order_id = second
  /\ orders[first].status = "filled" /\ orders[first].remaining = 0
  /\ orders[second].status = "open" /\ orders[second].remaining = 2

\* A sell order is filled exactly when its remaining is 0, and open before
SellFilledAtZero ==
  \A i \in 1..Len(orders) :
    orders[i].side = "sell" =>
      /\ orders[i].status = "filled" <=> orders[i].remaining = 0
      /\ orders[i].status = "open" <=> orders[i].remaining > 0

\* C11 (as stated): a sell of 10 matched against buys of 4 and 8 gives two trades
\* summing to 10, the sell is filled exactly when its remaining reaches 0, the buy of
\* 4 is filled and the buy of 8 stays open with remaining 2.
C11_Buy4Filled ==
  /\ SellFilledAtZero
  /\ \A s, b4, b8 \in 1..3 : ChainOrders(s, b4, b8) => ChainOutcome(s, b4, b8)

\* C11 (amended): a sell of 10 matched against buys of 4 and 8 gives two trades
\* summing to 10 and the sell is filled exactly when its remaining reaches 0; the buy
\* that trades first is filled and the other buy stays open with remaining 2 (the buy
\* of 8 when the buy of 4 trades first, the buy of 4 when the buy of 8 does).
C11_PartialFillChain ==
  /\ SellFilledAtZero
  /\ \A s, b4, b8 \in 1..3 :
       ChainOrders(s, b4, b8) =>
         IF trades # <<>> /\ trades[1].buy_order_id = b8
         THEN ChainOutcome(s, b8, b4)
         ELSE ChainOutcome(s, b4, b8)

\* The chain with both buys resting when the sell arrives, the buy of 8 served first
C11_Witness ==
  /\ ChainOrders(3, 1, 2)
  /\ Len(trades) = 2 /\ trades[1].buy_order_id = 2

\* C12: on every trade below the buy order's limit price the buyer is credited
\* (limit price - trade price) * quantity in the same step, for each trade leg,
\* whether or not the trade fills the buy order: the rebates paid are those due.
C12_RebateEachLeg ==
  SumTx(tx, "order_price_refund", 1) = RebatesDue(trades, orders, 1)

\* C13: every trade pairs the open buy order of highest price (earliest among equal
\* prices) with the open sell order of lowest price (earliest among equal prices) as
\* they stand at the moment of the trade; no trade is made between any other pair.
C13_BestPairTrades == outOfTurn = 0

\* C14: every trade has the limit price of its sell order, never above the limit
\* price of its buy order; for each trade the seller is credited quantity * price of
\* RUB and the buyer quantity of UWT, and the balances are what the log adds up to.
C14_TradeAtSellPrice ==
  LET credits_buy == SelectSeq(tx, LAMBDA e : e.kind = "trade_buy")
      credits_sell == SelectSeq(tx, LAMBDA e : e.kind = "trade_sell")
  IN /\ Len(credits_buy) = Len(trades) /\ Len(credits_sell) = Len(trades)
     /\ \A k \in 1..Len(trades) :
          LET t == trades[k]
              b == orders[t.buy_order_id]
              s == orders[t.sell_order_id]
          IN /\ b.side = "buy" /\ s.side = "sell"
             /\ t.price = s.price /\ t.price <= b.price /\ t.amount > 0
             /\ credits_buy[k].tg_id = b.user_tg_id /\ credits_buy[k].asset = "UWT"
             /\ credits_buy[k].delta = t.amount
             /\ credits_sell[k].tg_id = s.user_tg_id /\ credits_sell[k].asset = "RUB"
             /\ credits_sell[k].delta = t.amount * t.price
     /\ \A u \in users : /\ uwt[u] = AccountSum(tx, u, "UWT", 1)
                         /\ rub[u] = AccountSum(tx, u, "RUB", 1)

\* Two trades have been made, one of them below the limit price of its buy order
C14_Witness ==
  /\ Len(trades) = 2
  /\ \E k \in 1..2 : trades[k].price < orders[trades[k].buy_order_id].price

\* C15: a successful cancel of an open order sets its status to cancelled and credits
\* its owner exactly the untraded remainder (price * remaining RUB for a buy,
\* remaining UWT for a sell); trades, the other orders, what earlier trades have
\* exchanged and every other account stay as they are.
C15_CancelFrame ==
  [][\A oid \in 1..Len(orders) :
       (orders[oid].status = "open" /\ orders'[oid].status = "cancelled") =>
         LET o == orders[oid]
             u == o.user_tg_id
         IN /\ o.remaining = o.amount - TradedQty(trades, oid, 1)
            /\ orders' = [orders EXCEPT ![oid].status = "cancelled"]
            /\ trades' = trades
            /\ rub' = [rub EXCEPT ![u] = @ + (IF o.side = "buy" THEN o.price * o.remaining ELSE 0)]
            /\ uwt' = [uwt EXCEPT ![u] = @ + (IF o.side = "sell" THEN o.remaining ELSE 0)]]_vars

\* An order that had traded a part of its amount has been cancelled by its owner
C15_Witness ==
  /\ ret.op = "cancel" /\ ret.ok
  /\ \E oid \in 1..Len(orders) :
       orders[oid].status = "cancelled" /\ TradedQty(trades, oid, 1) > 0

SubscribedStep(u) ==
  /\ Len(tx') = Len(tx) + 2
  /\ tx'[Len(tx) + 1].kind = "channel_sub_pay"
  /\ tx'[Len(tx) + 1].tg_id = u

GrantOf(subs, u) == IF HasGrant(subs, Channel.id, u) THEN subs[<<Channel.id, u>>] ELSE 0

LaterOf(a, b) == IF a > b THEN a ELSE b

\* C19: extending a grant sets its expiry to max(now, current expiry) + one period
\* (a grant with time left keeps that time, an expired or absent grant extends from
\* now), and the new expiry is never earlier than the one the grant had.
C19_ExtendFromCurrent ==
  [][\A u \in Users :
       SubscribedStep(u) =>
         /\ GrantOf(channel_subs', u) = LaterOf(now, GrantOf(channel_subs, u)) + SubDays
         /\ GrantOf(channel_subs', u) >= GrantOf(channel_subs, u)]_vars

\* C20: a grant is extended only in a step that debited the subscriber and credited
\* the owner the price and logged both; a purchase is paid for only from a balance
\* that covers the price; a refused purchase (a step of neither the clock nor the
\* expiry worker that leaves a refusal as the reply) changes no balance, log or grant.
C20_PaidGrant ==
  [][/\ \A u \in Users :
          (GrantOf(channel_subs', u) > GrantOf(channel_subs, u) \/ SubscribedStep(u)) =>
            /\ SubscribedStep(u)
            /\ GetBalance(uwt, u) >= Channel.price_uwt
            /\ \A a \in Users :
                 uwt'[a] - uwt[a] = (IF a = Channel.owner_tg_id THEN Channel.price_uwt ELSE 0)
                                    - (IF a = u THEN Channel.price_uwt ELSE 0)
            /\ tx'[Len(tx) + 1].delta = -Channel.price_uwt
            /\ tx'[Len(tx) + 2] = [tg_id |-> Channel.owner_tg_id, asset |-> "UWT",
                                   delta |-> Channel.price_uwt, kind |-> "channel_sub_recv",
                                   meta |-> Channel.id]
            /\ HasGrant(channel_subs', Channel.id, u)
     /\ (ret'.op = "ch_sub" /\ ~ret'.ok /\ UNCHANGED <<calls, now>>) =>
           UNCHANGED <<uwt, rub, tx, channel_subs>>]_vars

\* Account 2 has bought two periods (owner holds 20 or more) and its third purchase was refused.
C20_Witness ==
  /\ ret = [op |-> "ch_sub", ok |-> FALSE, msg |-> "InsufficientFunds"]
  /\ uwt[2] = 0 /\ uwt[1] >= 20
  /\ HasGrant(channel_subs, Channel.id, 2)
  /\ uwt[3] = 10

\* The only voucher is the one account u made with total 100, per_claim 100 and
\* max_claims 1, and account v is the only one to have claimed it.
RoundTrip(u, v) ==
  /\ Len(checks) = 1
  /\ checks[1].creator_tg_id = u
  /\ <<checks[1].total_amount, checks[1].per_claim, checks[1].max_claims>> = <<100, 100, 1>>
  /\ check_claims = {<<1, v>>}

\* C21: a voucher of total 100, per_claim 100, max_claims 1 claimed once by another
\* account leaves the creator 100 lower, the claimant 100 higher, the voucher finished
\* and the sum of the balances what it was.
C21_RoundTrip ==
  \A u, v \in Users :
    (u # v /\ RoundTrip(u, v)) =>
      /\ uwt[u] = 100 - 100
      /\ uwt[v] = 100 + 100
      /\ \A w \in Users \ {u, v} : uwt[w] = 100
      /\ checks[1].status = "finished"
      /\ checks[1].claimed_count = 1
      /\ SumBal(uwt, Users) = 300

C21_Witness == RoundTrip(1, 2) /\ ret = [op |-> "claim", ok |-> TRUE, msg |-> "claimed"]

\* The voucher a step has just inserted
Inserted == checks'[Len(checks')]

\* C22: a step inserts a voucher only for amounts and a count above zero with
\* per_claim * max_claims within the total and a creator balance that covers the
\* total; the same step debits the creator exactly the total, logs it, and the voucher
\* is active with claimed_count 0; a refused create changes no balance, log or voucher,
\* and no balance goes down in a step that inserts no voucher.
C22_CreateChecked ==
  [][/\ Len(checks') # Len(checks) =>
          /\ Len(checks') = Len(checks) + 1
          /\ \A k \in 1..Len(checks) : checks'[k] = checks[k]
          /\ Inserted.total_amount > 0 /\ Inserted.per_claim > 0 /\ Inserted.max_claims > 0
          /\ Inserted.per_claim * Inserted.max_claims <= Inserted.total_amount
          /\ Inserted.creator_tg_id \in users
          /\ uwt[Inserted.creator_tg_id] >= Inserted.total_amount
          /\ \A a \in Users :
               uwt'[a] = IF a = Inserted.creator_tg_id THEN uwt[a] - Inserted.total_amount
                         ELSE uwt[a]
          /\ Inserted.status = "active" /\ Inserted.claimed_count = 0
          /\ tx' = Append(tx, [tg_id |-> Inserted.creator_tg_id, asset |-> "UWT",
                               delta |-> -Inserted.total_amount, kind |-> "check_create",
                               meta |-> Len(checks')])
          /\ ret' = [op |-> "create_check", ok |-> TRUE, msg |-> "token"]
          /\ UNCHANGED <<rub, check_claims>>
     /\ (ret'.op = "create_check" /\ ~ret'.ok) => UNCHANGED <<ledgerVars, checkVars>>
     /\ (ret'.op = "create_check" /\ ret'.ok) => Len(checks') = Len(checks) + 1
     /\ (\E a \in Users : uwt'[a] < uwt[a]) => Len(checks') = Len(checks) + 1]_vars

\* A voucher of two claims of 50 was made, and the last create, of a total above the
\* balance left, was refused.
C22_Witness ==
  /\ Len(checks) = 1 /\ checks[1].max_claims = 2 /\ checks[1].per_claim = 50
  /\ uwt[checks[1].creator_tg_id] = 0
  /\ ret = [op |-> "create_check", ok |-> FALSE, msg |-> "InsufficientFunds"]

\* The claim records of a voucher
ClaimsOf(k) == {p \in check_claims : p[1] = k}

\* C23: for every voucher per_claim * max_claims is within total_amount,
\* claimed_count is within max_claims and equals both the number of its claim records
\* and of its check_claim log rows, what was paid to claimants is within the total
\* debited at creation, and the balances hold all funds but what vouchers have not
\* paid out.
C23_VoucherBounds ==
  /\ \A k \in 1..Len(checks) :
       /\ checks[k].per_claim * checks[k].max_claims <= checks[k].total_amount
       /\ checks[k].claimed_count <= checks[k].max_claims
       /\ checks[k].claimed_count = Cardinality(ClaimsOf(k))
       /\ checks[k].claimed_count = CountTx(tx, "check_claim", k, 1)
       /\ checks[k].claimed_count * checks[k].per_claim <= checks[k].total_amount
       /\ CountTx(tx, "check_create", k, 1) = 1
  /\ SumBal(uwt, Users) + ChecksUnclaimed(checks, 1) = 300
  /\ SumTx(tx, "check_claim", 1) + SumTx(tx, "check_create", 1) <= 0

\* Accounts 2 and 3 have each claimed 40 of a voucher of 100, which is finished.
C23_Witness ==
  /\ Len(checks) >= 1
  /\ checks[1].claimed_count = 2 /\ checks[1].per_claim = 40 /\ checks[1].status = "finished"
  /\ ClaimsOf(1) = {<<1, 2>>, <<1, 3>>}
  /\ uwt[2] = 140 /\ uwt[3] = 140

\* Call c returns from a claim of a voucher its caller already holds a claim record of
RepeatClaimEnds(c) ==
  /\ calls[c].pc # "done" /\ calls'[c].pc = "done" /\ calls'[c].op = "claim"
  /\ <<calls'[c].arg, calls'[c].uid>> \in check_claims

\* At most one credit and one log row per voucher and user, in the state a step leads to
OneCreditEach ==
  \A u \in Users, k \in 1..Len(checks') :
    /\ CreditsTo(tx', u, k, 1) <= 1
    /\ CreditsTo(tx', u, k, 1) = IF <<k, u>> \in check_claims' THEN 1 ELSE 0

\* C24 as stated: each user is credited at most once per voucher, and every attempt
\* after the first successful one fails with AlreadyClaimed.
C24_RepeatAlreadyClaimed ==
  [][/\ OneCreditEach
     /\ \A c \in CallIds : RepeatClaimEnds(c) => calls'[c].result = "AlreadyClaimed"]_vars

\* C24 amended: each user is credited at most once per voucher; an attempt that ends
\* after the caller's claim was recorded changes no balance, log or claim record, and
\* fails with AlreadyClaimed if the voucher was active when the attempt read it and
\* with Unavailable if it was already finished.
C24_RepeatRefused ==
  [][/\ OneCreditEach
     /\ \A c \in CallIds :
          RepeatClaimEnds(c) =>
            /\ UNCHANGED <<uwt, rub, tx, check_claims, checks>>
            /\ calls'[c].result \in {"AlreadyClaimed", "Unavailable"}
            /\ calls'[c].result = "Unavailable" <=>
                 (calls[c].pc = "idle" /\ checks[calls'[c].arg].status = "finished")]_vars

\* Two attempts of account 2 on a voucher of two claims ran at the same time: one was
\* credited 40, the other has returned AlreadyClaimed, and the voucher is still active.
C24_Witness ==
  /\ Len(checks) >= 1 /\ checks[1].status = "active" /\ checks[1].claimed_count = 1
  /\ uwt[2] = 140
  /\ \E c \in CallIds :
       /\ calls[c] = [pc |-> "done", op |-> "claim", uid |-> 2, arg |-> 1, pw |-> 0,
                      seen |-> <<"active">>, result |-> "AlreadyClaimed"]

\* C25: a claim of an unknown token fails with NotFound, of a voucher that is not
\* active with Unavailable, of an active voucher with a password hash with
\* PasswordRequired when no password is given and with WrongPassword when the hash of
\* the given password differs; each of these failures changes no balance, log, claim
\* record or voucher, and a claim of a voucher with a password hash succeeds only
\* with the password of that hash.
C25_ClaimRefusals ==
  [][\A u \in Users, t \in 1..(MaxChecks + 1), pw \in {0, 1, 2} :
       ClaimCheckByToken(u, t, pw) =>
         /\ t \notin 1..Len(checks) => ret'.msg = "NotFound"
         /\ t \in 1..Len(checks) =>
              /\ checks[t].status # "active" => ret'.msg = "Unavailable"
              /\ (checks[t].status = "active" /\ checks[t].passhash # 0 /\ pw = 0)
                   => ret'.msg = "PasswordRequired"
              /\ (checks[t].status = "active" /\ checks[t].passhash # 0 /\ pw # 0
                    /\ Sha256(pw) # checks[t].passhash) => ret'.msg = "WrongPassword"
              /\ (ret'.ok /\ checks[t].passhash # 0) =>
                   (pw # 0 /\ Sha256(pw) = checks[t].passhash)
         /\ ret'.msg \in {"NotFound", "Unavailable", "PasswordRequired", "WrongPassword"} =>
              (~ret'.ok /\ UNCHANGED <<uwt, rub, tx, checks, check_claims>>)
         /\ ret'.ok <=> check_claims' = check_claims \cup {<<t, u>>} /\ <<t, u>> \notin check_claims]_vars

\* The voucher has the hash of password 1, nobody has claimed it, and the last claim
\* was refused for a wrong password.
C25_Witness ==
  /\ Len(checks) = 1 /\ checks[1].passhash = Sha256(1) /\ checks[1].status = "active"
  /\ check_claims = {}
  /\ ret = [op |-> "claim", ok |-> FALSE, msg |-> "WrongPassword"]

\* Call c returns from pay_bill_by_token in this step
PayEnds(c) == calls[c].pc # "done" /\ calls'[c].pc = "done" /\ calls'[c].op = "pay"

\* C26: a pay returns NotFound for an unknown token, Unavailable for an invoice that is
\* not active and SelfPay for the invoice's creator, changing nothing; a pay that
\* succeeds is by another account than the creator, moves exactly the invoice amount
\* from the payer to the creator, logs both and records the payer on the invoice; no
\* paid invoice was paid by its creator; creating an invoice moves no funds.
C26_PayChecked ==
  [][/\ \A c \in CallIds :
          PayEnds(c) =>
            LET t == calls'[c].arg
                p == calls'[c].uid
                res == calls'[c].result
            IN /\ (calls[c].pc = "idle" /\ t \notin 1..Len(bills_uwt)) => res = "NotFound"
               /\ (calls[c].pc = "idle" /\ t \in 1..Len(bills_uwt)) =>
                    /\ bills_uwt[t].status # "active" => res = "Unavailable"
                    /\ (bills_uwt[t].status = "active" /\ bills_uwt[t].creator_tg_id = p)
                         => res = "SelfPay"
               /\ res # "ok" => UNCHANGED <<uwt, rub, tx, bills_uwt>>
               /\ res = "ok" =>
                    /\ bills_uwt[t].creator_tg_id # p
                    /\ bills_uwt[t].status = "active"
                    /\ bills_uwt' = [bills_uwt EXCEPT ![t].status = "paid",
                                                      ![t].paid_by_tg_id = p]
                    /\ \A a \in Users :
                         uwt'[a] - uwt[a] =
                           (IF a = bills_uwt[t].creator_tg_id THEN bills_uwt[t].amount ELSE 0)
                           - (IF a = p THEN bills_uwt[t].amount ELSE 0)
                    /\ Len(tx') = Len(tx) + 2
                    /\ tx'[Len(tx) + 1] = [tg_id |-> p, asset |-> "UWT",
                                           delta |-> -bills_uwt[t].amount,
                                           kind |-> "bill_pay", meta |-> t]
                    /\ tx'[Len(tx) + 2] = [tg_id |-> bills_uwt[t].creator_tg_id, asset |-> "UWT",
                                           delta |-> bills_uwt[t].amount,
                                           kind |-> "bill_receive", meta |-> t]
     /\ \A t \in 1..Len(bills_uwt') :
          bills_uwt'[t].status = "paid" =>
            (bills_uwt'[t].paid_by_tg_id # bills_uwt'[t].creator_tg_id
             /\ bills_uwt'[t].paid_by_tg_id \in Users)
     /\ Len(bills_uwt') # Len(bills_uwt) => UNCHANGED <<uwt, rub, tx>>
     /\ bills_uwt' # bills_uwt =>
          (Len(bills_uwt') # Len(bills_uwt) \/ \E c \in CallIds : PayEnds(c) /\ calls'[c].result = "ok")]_vars

\* The creator of an invoice of 10 was refused as its payer and another account has
\* then paid it.
C26_Witness ==
  /\ Len(bills_uwt) = 1 /\ bills_uwt[1].status = "paid" /\ bills_uwt[1].amount = 10
  /\ bills_uwt[1].creator_tg_id = 1 /\ bills_uwt[1].paid_by_tg_id = 2
  /\ uwt = <<20, 0, 10>>
  /\ \E c, d \in CallIds :
       /\ calls[c].op = "pay" /\ calls[c].uid = 1 /\ calls[c].result = "SelfPay"
       /\ calls[d].op = "pay" /\ calls[d].uid = 2 /\ calls[d].result = "ok"

RequiredFunds(side, price, amount) == IF side = "buy" THEN price * amount ELSE amount

\* What the owner holds of the asset an order of this side locks
Holding(uid, side) == IF uid \notin users THEN 0 ELSE IF side = "buy" THEN rub[uid] ELSE uwt[uid]

\* C28: a placement with a price or an amount not above zero, or by an owner who
\* holds less than the required funds (price * amount of RUB for a buy, amount of UWT
\* for a sell), is rejected and changes nothing; any other placement takes exactly
\* the required funds from the owner, logs the lock and inserts the order open with
\* remaining equal to amount; the call returns only by its matching pass.
C28_PlaceChecked ==
  [][/\ \A c \in CallIds, u \in Placers, sd \in Sides, p \in PlacePrices, a \in PlaceAmounts :
          PlaceTxn(c, u, sd, p, a) =>
            LET need == RequiredFunds(sd, p, a) IN
            IF p <= 0 \/ a <= 0 \/ Holding(u, sd) < need \/ u \notin users
            THEN /\ ret' = [op |-> "place", ok |-> FALSE, msg |-> "rejected"]
                 /\ UNCHANGED <<uwt, rub, tx, orders, trades, calls>>
            ELSE /\ orders' = Append(orders, [user_tg_id |-> u, side |-> sd, price |-> p,
                                              amount |-> a, remaining |-> a, status |-> "open",
                                              created_at |-> now])
                 /\ rub' = IF sd = "buy" THEN [rub EXCEPT ![u] = @ - need] ELSE rub
                 /\ uwt' = IF sd = "sell" THEN [uwt EXCEPT ![u] = @ - need] ELSE uwt
                 /\ tx' = Append(tx, [tg_id |-> u, asset |-> IF sd = "buy" THEN "RUB" ELSE "UWT",
                                      delta |-> -need, kind |-> "order_lock", meta |-> 0])
                 /\ trades' = trades
                 /\ calls'[c].pc = "match" /\ ret' = ret
     /\ \A c \in CallIds :
          (calls[c].pc = "match" /\ calls'[c].pc # "match") =>
            /\ ret' = [op |-> "place", ok |-> TRUE, msg |-> "created"]
            /\ Len(orders') = Len(orders)
            /\ \A k \in 1..Len(orders) : orders'[k].remaining <= orders[k].remaining
     /\ (ret'.ok /\ ret' # ret) => \E c \in CallIds : calls[c].pc = "match" /\ calls'[c].pc = "idle"]_vars

\* Account 1 holds a buy of 20 at 12 that took all its 240 RUB, and its next buy was
\* rejected.
C28_Witness ==
  /\ Len(orders) = 1 /\ orders[1].side = "buy" /\ orders[1].user_tg_id = 1
  /\ orders[1].remaining = 20 /\ rub[1] = 0
  /\ ret = [op |-> "place", ok |-> FALSE, msg |-> "rejected"]

\* The first of the two log rows a swap has just appended
SwapLeg == tx'[Len(tx) + 1]

RefusedCall(c) == calls[c].pc # "done" /\ calls'[c].pc = "done" /\ calls'[c].result # "ok"

\* A create, place or cancel ends in this step with a refusal: the reply is a new
\* refusal, or the same refusal again from a step that starts no call, or it is the
\* transaction of a cancel that lost the order
RefusedReply ==
  /\ ~ret'.ok
  /\ \/ ret' # ret
     \/ calls' = calls
     \/ \E c \in CallIds : calls[c].op = "cancel" /\ calls[c].pc = "txn" /\ calls'[c].pc = "idle"

\* C30: a step in which an operation returns a failure (invalid input, insufficient
\* funds, not found, wrong state, duplicate, self-pay, password, not owner, lost
\* race) leaves every balance and the transaction log as they were.
C30_FailuresChangeNothing ==
  [][((\E c \in CallIds : RefusedCall(c)) \/ RefusedReply) => UNCHANGED <<uwt, rub, tx>>]_vars

\* Two calls read the invoice of 10 as active; account 2 paid it and the other call,
\* which had updated the balances before it found the invoice paid, was refused.
C30_Witness ==
  /\ Len(bills_uwt) = 1 /\ bills_uwt[1].status = "paid"
  /\ \E c, d \in CallIds :
       /\ calls[c].op = "pay" /\ calls[c].result = "ok"
       /\ calls[d].op = "pay" /\ calls[d].result = "AlreadyPaid"
  /\ uwt[1] = 30 /\ uwt[2] = 10


\* C31: matching is deterministic: every result the two SELECTs of a matching pass
\* may give for the same resting orders (same prices, remaining amounts and creation
\* timestamps, rows that tie on price and timestamp included) leads to the same
\* sequence of trades as the pass that ran.
C31_MatchDeterministic ==
  [][\A c \in CallIds :
       MatchTxn(c) =>
         \A buys \in SelectOpen(orders, "buy"), sells \in SelectOpen(orders, "sell") :
           MatchOrders(BookState, buys, sells).trades = trades']_vars


\* An open buy order and an open sell order, both with something left, whose prices meet
Crossed ==
  \E b \in Matchable(orders, "buy"), s \in Matchable(orders, "sell") :
    orders[b].price >= orders[s].price

\* No call has inserted an order whose matching pass is still to run
NoPassPending == \A c \in CallIds : calls[c].pc # "match"

\* C32: when a place operation has returned and no matching pass is still to run, the
\* book is not crossed: no open buy order with remaining > 0 has a price greater than
\* or equal to that of an open sell order with remaining > 0.
C32_NotCrossed == (ret.op = "place" /\ NoPassPending) => ~Crossed

\* A placement has traded and left an open order on each side
C32_Witness ==
  /\ ret.op = "place" /\ ret.ok /\ NoPassPending
  /\ Len(trades) > 0
  /\ Matchable(orders, "buy") # {} /\ Matchable(orders, "sell") # {}


\* C33: a voucher goes from active to finished exactly in the step that brings its
\* claimed_count up to max_claims; once it is finished its row stays as it is (the
\* status never returns to active) and no claim of it is recorded or credited.
C33_FinishedAtLastClaim ==
  [][\A t \in 1..Len(checks) :
       /\ (checks[t].status = "active" /\ checks'[t].status = "finished")
            <=> (/\ checks[t].claimed_count < checks[t].max_claims
                 /\ checks'[t].claimed_count = checks[t].max_claims)
       /\ checks[t].status = "finished" =>
            /\ checks'[t] = checks[t]
            /\ \A u \in Users : <<t, u>> \in check_claims' => <<t, u>> \in check_claims
            /\ \A u \in Users : CreditsTo(tx', u, t, 1) = CreditsTo(tx, u, t, 1)
            /\ \A c \in CallIds :
                 (calls[c].op = "claim" /\ calls[c].arg = t /\ calls[c].pc = "txn")
                   => calls'[c].result # "ok"]_vars

\* A voucher for two claims has finished at its second claim, and a claim of it that
\* came later has been refused
C33_Witness ==
  \E t \in 1..Len(checks), c \in CallIds :
    /\ checks[t].status = "finished" /\ checks[t].max_claims = 2
    /\ checks[t].claimed_count = 2
    /\ calls[c].op = "claim" /\ calls[c].arg = t /\ calls[c].result = "Unavailable"


\* C34: a credit to an account that was never touched creates the account and shows
\* in its balance: every account that the log credits has a row in users, and the
\* balance read for it is the sum of its log entries, so no credit is lost for want
\* of an account record.
C34_CreditCreatesAccount ==
  \A u \in Users :
    (\E i \in 1..Len(tx) : tx[i].tg_id = u /\ tx[i].asset = "UWT" /\ tx[i].delta > 0)
      => /\ u \in users
         /\ GetBalance(uwt, u) = AccountSum(tx, u, "UWT", 1)


\* C35: in every committed state the balance of every account in every asset is the
\* sum of the signed deltas of the account's log entries for that asset: no balance
\* changes without a log entry of the same amount and no log entry is committed
\* without its balance change.
C35_BalanceIsLogSum ==
  \A u \in Users :
    /\ GetBalance(uwt, u) = AccountSum(tx, u, "UWT", 1)
    /\ GetBalance(rub, u) = AccountSum(tx, u, "RUB", 1)


\* The log entries of conversions that carry the correlation value m
SwapEntries(m) ==
  {i \in 1..Len(tx) : tx[i].kind \in {"exchange_buy", "exchange_sell"} /\ tx[i].meta = m}

\* C36: the two log entries of one conversion carry a correlation id that exactly
\* those two entries share and that no other conversion has: every value found in the
\* meta of a conversion entry is found in exactly two entries, adjacent in the log.
C36_SwapIdPairsLegs ==
  \A i \in 1..Len(tx) :
    tx[i].kind \in {"exchange_buy", "exchange_sell"} =>
      /\ Cardinality(SwapEntries(tx[i].meta)) = 2
      /\ \E j \in SwapEntries(tx[i].meta) : j = i + 1 \/ j = i - 1


\* The giveaway g exists, is active and its end time has passed
PoolDue(g) ==
  g \in 1..Len(giveaways) /\ giveaways[g].status = "active" /\ giveaways[g].end_at <= now

PoolFinished(g) == g \in 1..Len(giveaways) /\ giveaways[g].status = "finished"

\* C37: with the sweep invoked again and again, every active prize pool whose end
\* time has passed is eventually finished, and no pool is ever finished before its
\* end time.
C37_DuePoolsFinish ==
  /\ \A g \in 1..MaxPools : PoolDue(g) ~> PoolFinished(g)
  /\ [](\A g \in 1..MaxPools : PoolFinished(g) => giveaways[g].end_at <= now)

\* A pool that somebody joined has been finished by the worker after its end time
C37_Witness ==
  /\ PoolFinished(1) /\ giveaways[1].end_at <= now
  /\ giveaways[1].winner_tg_id # 0
  /\ calls[Worker].op = "sweep"


\* The orders that are open when a matching pass starts
OpenAtStart == OpenIds(orders, "buy") \cup OpenIds(orders, "sell")

C39_SweepSparesRenewed ==
  [][\A c \in CallIds :
       SubsDelete(c) =>
         \A k \in DOMAIN channel_subs \ DOMAIN channel_subs' : channel_subs[k] <= now]_vars


\* C40: an active voucher always has claimed_count < max_claims, so the branch of
\* claim_check_by_token for an active voucher with claimed_count >= max_claims is
\* never taken: no claim ends as exhausted.
C40_ActiveHasClaimsLeft ==
  /\ \A t \in 1..Len(checks) :
       checks[t].status = "active" => checks[t].claimed_count < checks[t].max_claims
  /\ \A c \in CallIds : calls[c].result # "Exhausted"
  /\ ret.msg # "Exhausted"

\* A claimant has lost the race for the last slot: the call read the voucher as
\* active, and its transaction found it finished and refused it as unavailable
C40_Witness ==
  \E c \in CallIds :
    /\ calls[c].op = "claim" /\ calls[c].pc = "done"
    /\ calls[c].seen = <<"active">> /\ calls[c].result = "Unavailable"
    /\ checks[calls[c].arg].status = "finished"
    /\ checks[calls[c].arg].claimed_count = checks[calls[c].arg].max_claims

=============================================================================
